---- MODULE Spec2Model ----
(***************************************************************************)
(* A model of the structural source-patching engine of                     *)
(* server/utils/strategy-ast: edit_tools.py, param_tools.py and            *)
(* attr_tools.py.                                                          *)
(*                                                                         *)
(* A source text is a sequence of tokens.  A token is a line terminator    *)
(* ("\n", "\r"), one indentation unit, the statement separator ";", or the *)
(* complete text of one statement (or of one class/def header).  Texts are *)
(* split into lines, joined, parsed and indexed by the operators below,    *)
(* which follow the Python code operation by operation.                    *)
(***************************************************************************)
EXTENDS Integers, Sequences, FiniteSets, TLC

\* ------------------------------------------------------------------ bounds

\* The largest number of edits (changes) in one request.
MaxEdits == 2

\* ------------------------------------------------------------------ tokens

LF == "\n"
CR == "\r"
IND == "    "
SEMI == ";"

Doc == "'''doc'''"
ImpOs == "import os"
ImpSys == "import sys"
ImpTa == "import ta"
ImpNp == "import np"
Pass == "pass"
ClsS == "class S(IStrategy):"
ClsH == "class H:"
DefPI == "def populate_indicators(self):"
DefF == "def f(self):"

PX7 == "x = IntParameter(1, 20, default=7, space='buy')"
PX9 == "x = IntParameter(1, 20, default=9, space='buy')"
PXsell == "x = IntParameter(1, 20, default=7, space='sell')"
PXsell9 == "x = IntParameter(1, 20, default=9, space='sell')"
PXnodef == "x = IntParameter(1, 20, space='buy')"
PXstar == "x = IntParameter(1, 20, default=7, space='buy', **cfg)"
PXqual == "x = evil.IntParameter(1, 20, default=7, space='buy')"
PXann == "x: int = IntParameter(1, 20, default=7, space='buy')"
PXargs == "x = IntParameter(1, 99, default=7, space='buy')"
PXfn == "x = DecimalParameter(1, 20, default=7, space='buy')"
PXtwo == "x = self.y = IntParameter(1, 20, default=7, space='buy')"
PXxy == "x = y = IntParameter(1, 20, default=7, space='buy')"
PXcall == "x = compute(default=9)"
PXlit == "x = 9"
PY7 == "y = IntParameter(1, 20, default=7, space='buy')"

SLneg05 == "stoploss = -0.05"
SLneg1 == "stoploss = -0.1"
SLcall == "stoploss = some_call()"
TSFalse == "trailing_stop = False"
TSTrue == "trailing_stop = True"
TSann == "trailing_stop: bool = True"
TStwo == "trailing_stop = flag = True"
TScall == "trailing_stop = some_call()"
TFlit == "timeframe = '5m'"
TFlit2 == "timeframe = '1h'"

HeaderToks == {ClsS, ClsH, DefPI, DefF}

\* ------------------------------------------------------- syntax trees (ast)

NoValue == [kind |-> "None", qual |-> "", fn |-> "", args |-> <<>>, kws |-> <<>>, lit |-> ""]
Const(v) == [kind |-> "Constant", qual |-> "", fn |-> "", args |-> <<>>, kws |-> <<>>, lit |-> v]
Neg(v) == [kind |-> "UnaryOp", qual |-> "", fn |-> "", args |-> <<>>, kws |-> <<>>, lit |-> v]
Call(q, f, a, k) == [kind |-> "Call", qual |-> q, fn |-> f, args |-> a, kws |-> k, lit |-> ""]
Kw(a, v) == [arg |-> a, val |-> v]
NameT(id) == [isName |-> TRUE, id |-> id]
AttrT(id) == [isName |-> FALSE, id |-> id]

Node(form, name, bases, targets, ann, value) ==
    [form |-> form, name |-> name, bases |-> bases, targets |-> targets,
     ann |-> ann, value |-> value]
Assign(targets, value) == Node("Assign", "", <<>>, targets, "", value)
AnnAssign(target, ann, value) == Node("AnnAssign", "", <<>>, <<target>>, ann, value)
Other(form) == Node(form, "", <<>>, <<>>, "", NoValue)

IntP(q, f, hi, kws) == Call(q, f, <<"1", hi>>, kws)
KwDef(v) == Kw("default", v)
KwSpace(v) == Kw("space", v)

\* The syntax tree that Python's parser builds for each statement token.
Ast(tok) ==
    CASE tok = Doc -> Node("Expr", "", <<>>, <<>>, "", Const("'''doc'''"))
      [] tok \in {ImpOs, ImpSys, ImpTa, ImpNp} -> Other("Import")
      [] tok = Pass -> Other("Pass")
      [] tok = ClsS -> Node("ClassDef", "S", <<"IStrategy">>, <<>>, "", NoValue)
      [] tok = ClsH -> Node("ClassDef", "H", <<>>, <<>>, "", NoValue)
      [] tok = DefPI -> Node("FunctionDef", "populate_indicators", <<>>, <<>>, "", NoValue)
      [] tok = DefF -> Node("FunctionDef", "f", <<>>, <<>>, "", NoValue)
      [] tok = PX7 -> Assign(<<NameT("x")>>, IntP("", "IntParameter", "20", <<KwDef("7"), KwSpace("'buy'")>>))
      [] tok = PX9 -> Assign(<<NameT("x")>>, IntP("", "IntParameter", "20", <<KwDef("9"), KwSpace("'buy'")>>))
      [] tok = PXsell -> Assign(<<NameT("x")>>, IntP("", "IntParameter", "20", <<KwDef("7"), KwSpace("'sell'")>>))
      [] tok = PXsell9 -> Assign(<<NameT("x")>>, IntP("", "IntParameter", "20", <<KwDef("9"), KwSpace("'sell'")>>))
      [] tok = PXnodef -> Assign(<<NameT("x")>>, IntP("", "IntParameter", "20", <<KwSpace("'buy'")>>))
      [] tok = PXstar -> Assign(<<NameT("x")>>, IntP("", "IntParameter", "20", <<KwDef("7"), KwSpace("'buy'"), Kw("", "cfg")>>))
      [] tok = PXqual -> Assign(<<NameT("x")>>, IntP("evil", "IntParameter", "20", <<KwDef("7"), KwSpace("'buy'")>>))
      [] tok = PXann -> AnnAssign(NameT("x"), "int", IntP("", "IntParameter", "20", <<KwDef("7"), KwSpace("'buy'")>>))
      [] tok = PXargs -> Assign(<<NameT("x")>>, IntP("", "IntParameter", "99", <<KwDef("7"), KwSpace("'buy'")>>))
      [] tok = PXfn -> Assign(<<NameT("x")>>, IntP("", "DecimalParameter", "20", <<KwDef("7"), KwSpace("'buy'")>>))
      [] tok = PXtwo -> Assign(<<NameT("x"), AttrT("self.y")>>, IntP("", "IntParameter", "20", <<KwDef("7"), KwSpace("'buy'")>>))
      [] tok = PXxy -> Assign(<<NameT("x"), NameT("y")>>, IntP("", "IntParameter", "20", <<KwDef("7"), KwSpace("'buy'")>>))
      [] tok = PXcall -> Assign(<<NameT("x")>>, Call("", "compute", <<>>, <<KwDef("9")>>))
      [] tok = PXlit -> Assign(<<NameT("x")>>, Const("9"))
      [] tok = PY7 -> Assign(<<NameT("y")>>, IntP("", "IntParameter", "20", <<KwDef("7"), KwSpace("'buy'")>>))
      [] tok = SLneg05 -> Assign(<<NameT("stoploss")>>, Neg("0.05"))
      [] tok = SLneg1 -> Assign(<<NameT("stoploss")>>, Neg("0.1"))
      [] tok = SLcall -> Assign(<<NameT("stoploss")>>, Call("", "some_call", <<>>, <<>>))
      [] tok = TSFalse -> Assign(<<NameT("trailing_stop")>>, Const("False"))
      [] tok = TSTrue -> Assign(<<NameT("trailing_stop")>>, Const("True"))
      [] tok = TSann -> AnnAssign(NameT("trailing_stop"), "bool", Const("True"))
      [] tok = TStwo -> Assign(<<NameT("trailing_stop"), NameT("flag")>>, Const("True"))
      [] tok = TScall -> Assign(<<NameT("trailing_stop")>>, Call("", "some_call", <<>>, <<>>))
      [] tok = TFlit -> Assign(<<NameT("timeframe")>>, Const("'5m'"))
      [] tok = TFlit2 -> Assign(<<NameT("timeframe")>>, Const("'1h'"))
      [] OTHER -> Other("Expr")

\* ------------------------------------------------------------- text, lines

RECURSIVE SplitFrom(_, _, _)
SplitFrom(t, i, cur) ==
    IF i > Len(t) THEN (IF cur = <<>> THEN <<>> ELSE <<cur>>)
    ELSE IF t[i] = LF THEN <<Append(cur, LF)>> \o SplitFrom(t, i + 1, <<>>)
    ELSE IF t[i] = CR THEN
        IF i < Len(t) /\ t[i + 1] = LF
        THEN <<cur \o <<CR, LF>> >> \o SplitFrom(t, i + 2, <<>>)
        ELSE <<Append(cur, CR)>> \o SplitFrom(t, i + 1, <<>>)
    ELSE SplitFrom(t, i + 1, Append(cur, t[i]))

\* str.splitlines(keepends=True)
splitlines(t) == SplitFrom(t, 1, <<>>)

RECURSIVE join(_)
\* "".join(lines)
join(ls) == IF ls = <<>> THEN <<>> ELSE Head(ls) \o join(Tail(ls))

\* lines[a:b] of a Python list (0-based, half open, clipped)
Slice(ls, a, b) ==
    LET lo == IF a < 0 THEN 0 ELSE a
        hi == IF b > Len(ls) THEN Len(ls) ELSE b
    IN IF hi <= lo THEN <<>> ELSE SubSeq(ls, lo + 1, hi)

\* an insertion at a that removes nothing
Splice_keeping(ls, a, b, new) ==
    LET lo == IF a > Len(ls) THEN Len(ls) ELSE a
    IN SubSeq(ls, 1, lo) \o new \o SubSeq(ls, lo + 1, Len(ls))

\* lines[a:b] = new
Splice(ls, a, b, new) ==
    LET lo == IF a > Len(ls) THEN Len(ls) ELSE a
        hi == IF b > Len(ls) THEN Len(ls) ELSE IF b < lo THEN lo ELSE b
    IN SubSeq(ls, 1, lo) \o new \o SubSeq(ls, hi + 1, Len(ls))

\* a line without its terminator
Content(l) ==
    LET n == Len(l) IN
    IF n >= 2 /\ l[n - 1] = CR /\ l[n] = LF THEN SubSeq(l, 1, n - 2)
    ELSE IF n >= 1 /\ l[n] \in {LF, CR} THEN SubSeq(l, 1, n - 1)
    ELSE l

\* ------------------------------------------------------------------ parser

\* the lines without their terminators
Contents(ls) == [i \in 1..Len(ls) |-> Content(ls[i])]
First(s) == IF s = <<>> THEN <<>> ELSE <<s[1]>>
LastOf(s) == IF s = <<>> THEN <<>> ELSE <<s[Len(s)]>>

RECURSIVE LeadInd(_)
\* the indentation of a line, in units
LeadInd(c) == IF c # <<>> /\ Head(c) = IND THEN 1 + LeadInd(Tail(c)) ELSE 0

\* the tokens of a line after its first k; inner white space separates nothing
Items(c, k) == SelectSeq(SubSeq(c, k + 1, Len(c)), LAMBDA t : t # IND)

\* simple_stmt (";" simple_stmt)* [";"], or one class/def header alone: two
\* statement texts that touch without a separator do not parse
ItemsOk(it) ==
    \A i \in 1..Len(it) :
        /\ (i % 2 = 1) => it[i] # SEMI
        /\ (i % 2 = 0) => it[i] = SEMI
        /\ it[i] \in HeaderToks => Len(it) = 1

\* the statements of a line at nesting depth d
LineStmts(it, i, d) ==
    [j \in 1..((Len(it) + 1) \div 2) |-> [tok |-> it[2 * j - 1], line |-> i, depth |-> d]]

RECURSIVE PopTo(_, _)
PopTo(stack, k) ==
    IF Len(stack) > 1 /\ stack[Len(stack)] > k
    THEN PopTo(SubSeq(stack, 1, Len(stack) - 1), k)
    ELSE stack

\* the indentation stack after a line indented by k
Restack(stack, k) == IF k > stack[Len(stack)] THEN Append(stack, k) ELSE PopTo(stack, k)

SyntaxError == [ok |-> FALSE, stmts |-> <<>>]

RECURSIVE Scan(_, _, _, _, _)
RECURSIVE ScanLine(_, _, _, _, _, _, _, _)
\* The tokenizer's INDENT/DEDENT discipline over the physical lines pl: a block is
\* opened only by a header, and a dedent must return to an open level.
Scan(pl, i, stack, expect, out) ==
    IF i > Len(pl) THEN [ok |-> ~expect, stmts |-> out]
    ELSE ScanLine(pl, i, stack, expect, out,
                  LeadInd(pl[i]), Items(pl[i], LeadInd(pl[i])), Restack(stack, LeadInd(pl[i])))

ScanLine(pl, i, stack, expect, out, k, it, st2) ==
    IF it = <<>> THEN Scan(pl, i + 1, stack, expect, out)
    ELSE IF ~ItemsOk(it) THEN SyntaxError
    ELSE IF expect /\ k <= stack[Len(stack)] THEN SyntaxError
    ELSE IF ~expect /\ k > stack[Len(stack)] THEN SyntaxError
    ELSE IF st2[Len(st2)] # k THEN SyntaxError
    ELSE Scan(pl, i + 1, st2, it[1] \in HeaderToks, out \o LineStmts(it, i, Len(st2) - 1))

\* the index of the last statement of the block that statement j opens
BlockEnd(stmts, j) ==
    CHOOSE m \in j..Len(stmts) :
        /\ \A q \in (j + 1)..m : stmts[q].depth > stmts[j].depth
        /\ m < Len(stmts) => stmts[m + 1].depth <= stmts[j].depth

\* a statement with its syntax tree, lineno and end_lineno
Located(st, node, lastSt, last) ==
    [tok |-> st.tok, node |-> node, depth |-> st.depth, line |-> st.line,
     endLine |-> lastSt.line, last |-> last]

Tree(r) ==
    [ok |-> r.ok,
     stmts |-> [j \in 1..(IF r.ok THEN Len(r.stmts) ELSE 0) |->
                  Located(r.stmts[j], Ast(r.stmts[j].tok),
                          r.stmts[BlockEnd(r.stmts, j)], BlockEnd(r.stmts, j))]]

\* ast.parse: every statement of the module in source order, with its nesting
\* depth, lineno and end_lineno (1-based physical lines of the text)
parse(text) == Tree(Scan(Contents(splitlines(text)), 1, <<0>>, FALSE, <<>>))

\* tree.body: the top-level statements
Body(tree) == SelectSeq(tree.stmts, LAMBDA st : st.depth = 0)

\* node.body of the class or function statement st
Children(tree, st) ==
    SelectSeq(tree.stmts,
              LAMBDA c : /\ c.line > st.line
                         /\ c.line <= st.endLine
                         /\ c.depth = st.depth + 1)

\* --------------------------------------------------------------- ordering

\* Python's order on the strings that are compared by the sorts below
StrOrder == <<"default", "load", "optimize", "space", "x", "y">>
StrRank(a) == IF \E i \in 1..Len(StrOrder) : StrOrder[i] = a
              THEN CHOOSE i \in 1..Len(StrOrder) : StrOrder[i] = a
              ELSE 0

\* a keyed element: k1 and k2 are the integer sort keys of the value v
Keyed(k1, k2, v) == [k1 |-> k1, k2 |-> k2, v |-> v]
KeyLess(a, b) == a.k1 < b.k1 \/ (a.k1 = b.k1 /\ a.k2 < b.k2)

RECURSIVE InsertSorted(_, _)
\* x put after every element that is not greater than it (a stable insertion)
InsertSorted(s, x) ==
    IF s = <<>> THEN <<x>>
    ELSE IF KeyLess(x, Head(s)) THEN <<x>> \o s
    ELSE <<Head(s)>> \o InsertSorted(Tail(s), x)

RECURSIVE SortFrom(_, _, _)
SortFrom(s, i, acc) ==
    IF i > Len(s) THEN acc ELSE SortFrom(s, i + 1, InsertSorted(acc, s[i]))

Values(r) == [i \in 1..Len(r) |-> r[i].v]

\* list.sort(key=...) on keyed elements: stable; the values in sorted order
Sorted(s) == Values(SortFrom(s, 1, <<>>))

\* ---------------------------------------------------------------- indexer

\* the callee names that contain the substring "Parameter"
ParameterNames == {"IntParameter", "DecimalParameter"}
\* the value atoms that ast.literal_eval cannot evaluate
NonLiteral == {"cfg"}
StrLiterals == {"'''doc'''", "'5m'", "'1h'", "'buy'", "'sell'"}

\* _is_param_call
is_param_call(v) == v.kind = "Call" /\ v.fn # "" /\ v.fn \in ParameterNames

\* _safe_literal
safe_literal(v) == IF v \in NonLiteral THEN "None" ELSE v

\* the targets without the filter on plain names
NameTargets_unfiltered(node) == node.targets

\* targets = [t for t in node.targets if isinstance(t, ast.Name)]
NameTargets(node) == SelectSeq(node.targets, LAMBDA t : t.isName)

NoAssignment == [ok |-> FALSE, name |-> ""]

\* edit_tools._get_param_assignment, param_tools._get_param_assignment
get_param_assignment(node) ==
    IF node.form = "Assign" THEN
        IF node.value.kind # "Call" THEN NoAssignment
        ELSE IF ~is_param_call(node.value) THEN NoAssignment
        ELSE IF Len(NameTargets(node)) # 1 THEN NoAssignment
        ELSE [ok |-> TRUE, name |-> NameTargets(node)[1].id]
    ELSE IF node.form = "AnnAssign" THEN
        IF node.value.kind # "Call" THEN NoAssignment
        ELSE IF ~is_param_call(node.value) THEN NoAssignment
        ELSE IF ~node.targets[1].isName THEN NoAssignment
        ELSE [ok |-> TRUE, name |-> node.targets[1].id]
    ELSE NoAssignment

LastLiteral(hits) == IF hits = <<>> THEN "None" ELSE safe_literal(hits[Len(hits)].val)

\* {k.arg: k.value for k in call.keywords if k.arg}.get(name): the last one wins
KwGet(kws, name) == LastLiteral(SelectSeq(kws, LAMBDA k : k.arg = name))

\* the entry that _extract_assignments appends for statement st (lines 79-108)
ParamEntry(st, name, call, lines) ==
    Keyed(st.line, StrRank(name),
          [name |-> name,
           type |-> call.fn,
           line |-> st.line,
           endLine |-> st.endLine,
           args |-> << IF Len(call.args) > 0 THEN safe_literal(call.args[1]) ELSE "None",
                       IF Len(call.args) > 1 THEN safe_literal(call.args[2]) ELSE "None" >>,
           default |-> KwGet(call.kws, "default"),
           space |-> KwGet(call.kws, "space"),
           optimize |-> KwGet(call.kws, "optimize"),
           before |-> join(Slice(lines, st.line - 1, st.endLine))])

WithAssignment(st, pa) == [st |-> st, pa |-> pa]

ParamEntries(found, lines) ==
    [i \in 1..Len(found) |->
        ParamEntry(found[i].st, found[i].pa.name, found[i].st.node.value, lines)]

\* _extract_assignments: every parameter assignment of the tree (ast.walk visits
\* every node), sorted by (line, name)
extract_assignments(tree, source) ==
    Sorted(ParamEntries(
        SelectSeq([i \in 1..Len(tree.stmts) |->
                      WithAssignment(tree.stmts[i], get_param_assignment(tree.stmts[i].node))],
                  LAMBDA f : f.pa.ok),
        splitlines(source)))

Located3(st) == [name |-> st.node.name, line |-> st.line, endLine |-> st.endLine]
Located3s(sts) == [i \in 1..Len(sts) |-> Located3(sts[i])]

IsDef(st) == st.node.form = "FunctionDef"

ClassEntry(st, children) ==
    [name |-> st.node.name, line |-> st.line, endLine |-> st.endLine,
     bases |-> st.node.bases,
     methods |-> Located3s(SelectSeq(children, IsDef))]

IsClass(st) == st.node.form = "ClassDef"

ClassEntries(tree, classes) ==
    [i \in 1..Len(classes) |-> ClassEntry(classes[i], Children(tree, classes[i]))]

\* _index_classes
index_classes(tree) == ClassEntries(tree, SelectSeq(Body(tree), IsClass))

\* _index_functions
index_functions(tree) == Located3s(SelectSeq(Body(tree), IsDef))

\* _build_index
build_index(tree, source) ==
    [classes |-> index_classes(tree),
     functions |-> index_functions(tree),
     params |-> extract_assignments(tree, source)]

\* ----------------------------------------------------------------- lookups

\* a lookup's result is the sequence of its hits in search order, cut to the
\* first of them: the code returns that one, or None when there is none
InSeq(x, s) == \E i \in 1..Len(s) : s[i] = x

FirstOr(a, b) == IF a # <<>> THEN <<a[1]>> ELSE IF b # <<>> THEN <<b[1]>> ELSE <<>>

\* edit_tools._find_strategy_class
find_strategy_class(index) ==
    FirstOr(SelectSeq(index.classes, LAMBDA c : InSeq("IStrategy", c.bases)), index.classes)

\* _find_class
find_class(index, name) == First(SelectSeq(index.classes, LAMBDA c : c.name = name))

\* _find_param
find_param(index, name) == First(SelectSeq(index.params, LAMBDA p : p.name = name))

Callable(type, className, f) ==
    [type |-> type, className |-> className, name |-> f.name,
     line |-> f.line, endLine |-> f.endLine]

RECURSIVE MethodsOf(_)
\* the methods of the classes cs, each with its class, in search order
MethodsOf(cs) ==
    IF cs = <<>> THEN <<>>
    ELSE [i \in 1..Len(Head(cs).methods) |->
            Callable("method", Head(cs).name, Head(cs).methods[i])]
         \o MethodsOf(Tail(cs))

FunctionsOf(fns) == [i \in 1..Len(fns) |-> Callable("function", "", fns[i])]

\* a lookup that takes the classes in source order, the strategy class among them
find_function_in_source_order(index, name) ==
    First(SelectSeq(MethodsOf(index.classes) \o FunctionsOf(index.functions),
                    LAMBDA f : f.name = name))

\* _find_function
find_function(index, name) ==
    First(SelectSeq(MethodsOf(find_strategy_class(index) \o index.classes)
                    \o FunctionsOf(index.functions),
                    LAMBDA f : f.name = name))

\* ------------------------------------------------------ precondition check

RECURSIVE normalize_text(_)
\* _normalize_text: value.replace("\r\n", "\n")
normalize_text(t) ==
    IF t = <<>> THEN <<>>
    ELSE IF Len(t) >= 2 /\ t[1] = CR /\ t[2] = LF THEN <<LF>> \o normalize_text(SubSeq(t, 3, Len(t)))
    ELSE <<Head(t)>> \o normalize_text(Tail(t))

RECURSIVE rstrip_lf(_)
\* value.rstrip("\n")
rstrip_lf(t) ==
    IF t # <<>> /\ t[Len(t)] = LF THEN rstrip_lf(SubSeq(t, 1, Len(t) - 1)) ELSE t

NormMatches(segment_norm, before_norm) ==
    IF segment_norm = before_norm THEN TRUE
    ELSE IF rstrip_lf(segment_norm) = rstrip_lf(before_norm) THEN TRUE
    ELSE FALSE

\* _segment_matches
segment_matches(segment, before) == NormMatches(normalize_text(segment), normalize_text(before))

\* ---------------------------------------------------------------- requests

\* an optional string of a JSON payload: isStr is FALSE when the key is absent
\* or holds another type
Str(s) == [isStr |-> TRUE, s |-> s]
NoStr == [isStr |-> FALSE, s |-> <<>>]

Target(kind, name, startLine, endLine) ==
    [isDict |-> TRUE, kind |-> kind, name |-> name, startLine |-> startLine, endLine |-> endLine]
NoDict == [isDict |-> FALSE, kind |-> "", name |-> "", startLine |-> 0, endLine |-> 0]
Anchor(kind, name) == Target(kind, name, 0, 0)

\* an element of "edits" (edit_tools) or of "changes" (param_tools, attr_tools)
Replace(target, before, after) ==
    [isDict |-> TRUE, kind |-> "replace", name |-> "", target |-> target, anchor |-> NoDict,
     before |-> before, after |-> after, content |-> NoStr]
Insert(anchor, content) ==
    [isDict |-> TRUE, kind |-> "insert", name |-> "", target |-> NoDict, anchor |-> anchor,
     before |-> NoStr, after |-> NoStr, content |-> content]
Change(name, before, after) ==
    [isDict |-> TRUE, kind |-> "", name |-> name, target |-> NoDict, anchor |-> NoDict,
     before |-> before, after |-> after, content |-> NoStr]
NotAnObject ==
    [isDict |-> FALSE, kind |-> "", name |-> "", target |-> NoDict, anchor |-> NoDict,
     before |-> NoStr, after |-> NoStr, content |-> NoStr]

\* --------------------------------------------------------- region resolver

Resolved(start, end, lines, label) ==
    [err |-> <<>>, start |-> start, end |-> end,
     segment |-> join(Slice(lines, start - 1, end)), label |-> label]
Unresolved(err) == [err |-> err, start |-> 0, end |-> 0, segment |-> <<>>, label |-> <<>>]

\* the shared shape of the function, class and param branches of
\* _resolve_replace_target: found is the lookup's result
ResolveNamed(kind, name, found, lines) ==
    IF name = "" THEN Unresolved(<<"target name required for", kind>>)
    ELSE IF found = <<>> THEN Unresolved(<<"target-not-found:", kind, name>>)
    ELSE Resolved(found[1].line, found[1].endLine, lines,
                  IF kind = "function" /\ found[1].type = "method"
                  THEN <<"method", found[1].className, name>>
                  ELSE <<kind, name>>)

\* a check that does not compare the end line with the length of the buffer
invalid_range_unbounded(start, end, n) == start < 1 \/ end < start

\* the range check of _resolve_replace_target (line 270) on a buffer of n lines
invalid_range(start, end, n) == start < 1 \/ end < start \/ end > n

\* _resolve_replace_target
resolve_replace_target(target, index, lines) ==
    IF target.kind = "function"
    THEN ResolveNamed("function", target.name, find_function(index, target.name), lines)
    ELSE IF target.kind = "class"
    THEN ResolveNamed("class", target.name, find_class(index, target.name), lines)
    ELSE IF target.kind = "param"
    THEN ResolveNamed("param", target.name, find_param(index, target.name), lines)
    ELSE IF target.kind = "range" THEN
        IF invalid_range(target.startLine, target.endLine, Len(lines))
        THEN Unresolved(<<"invalid-range">>)
        ELSE Resolved(target.startLine, target.endLine, lines, <<"range">>)
    ELSE Unresolved(<<"invalid target kind">>)

\* --------------------------------------------------------- anchor resolver

Anchored(at, label) == [err |-> <<>>, at |-> at, label |-> label]
Unanchored(err) == [err |-> err, at |-> 0, label |-> <<>>]

IsDocstring(node) ==
    node.form = "Expr" /\ node.value.kind = "Constant" /\ node.value.lit \in StrLiterals

\* a scan that stops at the first import statement
ImportScan_first(body, i, last_import_end) ==
    IF \E j \in i..Len(body) : body[j].node.form = "Import"
    THEN body[CHOOSE j \in i..Len(body) :
                  /\ body[j].node.form = "Import"
                  /\ \A q \in i..(j - 1) : body[q].node.form # "Import"].endLine
    ELSE last_import_end

RECURSIVE ImportScan(_, _, _)
\* the loop of edit_tools.py lines 307-314 over tree.body from position i
ImportScan(body, i, last_import_end) ==
    IF i > Len(body) THEN last_import_end
    ELSE IF body[i].node.form = "Import" THEN ImportScan(body, i + 1, body[i].endLine)
    ELSE IF last_import_end > 0 THEN last_import_end
    ELSE ImportScan(body, i + 1, last_import_end)

Max(a, b) == IF a > b THEN a ELSE b

\* edit_tools.py lines 297-316 on the parsed buffer
ImportsEnd(ok, body) ==
    IF ~ok THEN 0
    ELSE Max(IF body # <<>> /\ IsDocstring(body[1].node) THEN body[1].endLine ELSE 0,
             ImportScan(body, 1, 0))

\* the after_imports branch of _resolve_anchor, which parses the buffer itself
after_imports(tree) == ImportsEnd(tree.ok, Body(tree))

ClassEnd(cls) ==
    IF cls = <<>> THEN Unanchored(<<"anchor-not-found: class">>)
    ELSE Anchored(cls[1].endLine, <<"end of class", cls[1].name>>)

\* a resolution that does not look for the method
IndicatorsEnd_of_class(strategy, lines) ==
    IF strategy # <<>>
    THEN Anchored(strategy[1].endLine, <<"end of class", strategy[1].name>>)
    ELSE Anchored(Len(lines), <<"end of module">>)

IndicatorsEnd(strategy, lines) ==
    IF strategy # <<>> THEN
        IF \E i \in 1..Len(strategy[1].methods) :
               strategy[1].methods[i].name = "populate_indicators"
        THEN Anchored(SelectSeq(strategy[1].methods,
                                LAMBDA m : m.name = "populate_indicators")[1].endLine,
                      <<"after populate_indicators">>)
        ELSE Anchored(strategy[1].endLine, <<"end of class", strategy[1].name>>)
    ELSE Anchored(Len(lines), <<"end of module">>)

AfterFunction(name, found) ==
    IF name = "" THEN Unanchored(<<"anchor name required for after_function">>)
    ELSE IF found = <<>> THEN Unanchored(<<"anchor-not-found: function", name>>)
    ELSE Anchored(found[1].endLine, <<"after function", name>>)

\* _resolve_anchor
resolve_anchor(anchor, index, lines) ==
    IF anchor.kind = "after_function"
    THEN AfterFunction(anchor.name, find_function(index, anchor.name))
    ELSE IF anchor.kind = "after_imports"
    THEN Anchored(after_imports(parse(join(lines))), <<"after imports">>)
    ELSE IF anchor.kind = "class_end"
    THEN ClassEnd(IF anchor.name # "" THEN find_class(index, anchor.name)
                  ELSE find_strategy_class(index))
    ELSE IF anchor.kind = "module_end" THEN Anchored(Len(lines), <<"end of module">>)
    ELSE IF anchor.kind = "heuristic_indicators"
    THEN IndicatorsEnd(find_strategy_class(index), lines)
    ELSE Unanchored(<<"invalid anchor kind">>)

\* _ensure_trailing_newline
ensure_trailing_newline(content, must_terminate) ==
    IF must_terminate /\ content # <<>> /\ content[Len(content)] # LF
    THEN Append(content, LF)
    ELSE content

\* ------------------------------------------------------------ patch applier

NoEntry == [kind |-> "", target |-> NoDict, anchor |-> NoDict,
            startLine |-> 0, endLine |-> 0, line |-> 0, label |-> <<>>]
ReplaceEntry(target, start, end) ==
    [NoEntry EXCEPT !.kind = "replace", !.target = target, !.startLine = start, !.endLine = end]
InsertEntry(anchor, line, label) ==
    [NoEntry EXCEPT !.kind = "insert", !.anchor = anchor, !.line = line, !.label = label]

\* the outcome of one iteration of an apply loop: err is <<>> when the edit was
\* applied; lines is the buffer afterwards; reached tells whether the before-text
\* comparison was evaluated, and then segment is the text it was compared with
Outcome(err, lines, entry, reached, start, end, segment) ==
    [err |-> err, lines |-> lines, entry |-> entry, reached |-> reached,
     start |-> start, end |-> end, segment |-> segment]
Raise(err, lines) == Outcome(err, lines, NoEntry, FALSE, 0, 0, <<>>)
Ok == <<>>

\* the replace branch of _apply_edits (lines 365-380); r is the resolved target
apply_replace(lines, edit, r) ==
    IF ~edit.target.isDict THEN Raise(<<"replace edits require target">>, lines)
    ELSE IF ~edit.before.isStr \/ ~edit.after.isStr
         THEN Raise(<<"replace edits require before/after strings">>, lines)
    ELSE IF r.err # <<>> THEN Raise(r.err, lines)
    ELSE IF ~segment_matches(r.segment, edit.before.s)
         THEN Outcome(<<"before mismatch for">> \o r.label, lines, NoEntry, TRUE,
                      r.start, r.end, r.segment)
    ELSE Outcome(Ok, Splice(lines, r.start - 1, r.end, splitlines(edit.after.s)),
                 ReplaceEntry(edit.target, r.start, r.end),
                 TRUE, r.start, r.end, r.segment)

\* the splice of the insert branch (lines 391-394); a is the resolved anchor
InsertAt(lines, edit, a, content) ==
    Outcome(Ok,
            Splice(lines, a.at, a.at,
                   splitlines(ensure_trailing_newline(content, a.at < Len(lines)))),
            InsertEntry(edit.anchor, a.at + 1, a.label), FALSE, a.at, a.at, <<>>)

\* the insert branch of _apply_edits (lines 382-395); a is the resolved anchor
apply_insert(lines, edit, a) ==
    IF ~edit.anchor.isDict THEN Raise(<<"insert edits require anchor">>, lines)
    ELSE IF ~edit.after.isStr /\ ~edit.content.isStr
         THEN Raise(<<"insert edits require content">>, lines)
    ELSE IF a.err # <<>> THEN Raise(a.err, lines)
    ELSE InsertAt(lines, edit, a, IF edit.after.isStr THEN edit.after.s ELSE edit.content.s)

\* the text from which the index of an iteration is built (line 361)
current_src(lines, original) == join(lines)

\* the dispatch of one iteration on the kind of the edit, with the index of the
\* current text
apply_indexed(lines, edit, ok, index) ==
    IF ~edit.isDict THEN Raise(<<"each edit must be an object">>, lines)
    ELSE IF ~ok THEN Raise(<<"SyntaxError">>, lines)
    ELSE IF edit.kind = "replace"
         THEN apply_replace(lines, edit, resolve_replace_target(edit.target, index, lines))
    ELSE IF edit.kind = "insert"
         THEN apply_insert(lines, edit, resolve_anchor(edit.anchor, index, lines))
    ELSE Raise(<<"invalid edit kind">>, lines)

apply_parsed(lines, edit, tree, source) ==
    apply_indexed(lines, edit, tree.ok, build_index(tree, source))

apply_source(lines, edit, source) == apply_parsed(lines, edit, parse(source), source)

\* one iteration of the loop of _apply_edits (lines 356-397) on the buffer lines;
\* original is the text read at entry
apply_edit(lines, edit, original) == apply_source(lines, edit, current_src(lines, original))

\* --------------------------------------------------------- safety validator

RECURSIVE LfLinesFrom(_, _, _)
\* the lines of a text as textwrap.dedent sees them: split at "\n" only
LfLinesFrom(t, i, cur) ==
    IF i > Len(t) THEN (IF cur = <<>> THEN <<>> ELSE <<cur>>)
    ELSE IF t[i] = LF THEN <<Append(cur, LF)>> \o LfLinesFrom(t, i + 1, <<>>)
    ELSE LfLinesFrom(t, i + 1, Append(cur, t[i]))

EndsLF(l) == l # <<>> /\ l[Len(l)] = LF
\* a line of nothing but blanks before its "\n"
OnlyInd(l) == \A i \in 1..Len(l) : l[i] = IND \/ (i = Len(l) /\ l[i] = LF)

MinOf(S) == IF S = {} THEN 0 ELSE CHOOSE m \in S : \A n \in S : m <= n

\* the white space common to the lines that are not blank
Margin(ls) == MinOf({LeadInd(ls[i]) : i \in {j \in 1..Len(ls) : ~OnlyInd(ls[j])}})

Cut(l, margin) ==
    IF OnlyInd(l) THEN (IF EndsLF(l) THEN <<LF>> ELSE <<>>)
    ELSE SubSeq(l, margin + 1, Len(l))

CutAll(ls, margin) == join([i \in 1..Len(ls) |-> Cut(ls[i], margin)])

Dedented(ls) == CutAll(ls, Margin(ls))

\* textwrap.dedent: blank lines are emptied, and the white space common to the
\* other lines is removed from each of them
dedent(t) == Dedented(LfLinesFrom(t, 1, <<>>))

NoStatement(err) == [err |-> err, node |-> Other("Pass")]

\* a statement parser that takes the first statement of any non-empty body
StatementOf_first(ok, body) ==
    IF ~ok THEN NoStatement(<<"SyntaxError">>)
    ELSE IF body = <<>> THEN NoStatement(<<"Expected exactly one statement">>)
    ELSE [err |-> Ok, node |-> body[1].node]

\* the checks of _parse_statement on the parsed module
StatementOf(ok, body) ==
    IF ~ok THEN NoStatement(<<"SyntaxError">>)
    ELSE IF Len(body) # 1 THEN NoStatement(<<"Expected exactly one statement">>)
    ELSE [err |-> Ok, node |-> body[1].node]

ModuleStatement(mod) == StatementOf(mod.ok, Body(mod))

\* param_tools._parse_statement, attr_tools._parse_statement
parse_statement(src) == ModuleStatement(parse(dedent(src)))

Normal(name, value) == [err |-> Ok, name |-> name, value |-> value]
Abnormal(err) == [err |-> err, name |-> "", value |-> NoValue]

\* the inner function normalize of _validate_default_only; targets are the
\* targets that are names
NormalizeTargets(st, targets) ==
    IF st.form = "Assign" THEN
        IF Len(targets) # 1 THEN Abnormal(<<"Assignment target must be a single name">>)
        ELSE IF st.value.kind # "Call" THEN Abnormal(<<"Assigned value must be a call">>)
        ELSE Normal(targets[1].id, st.value)
    ELSE IF st.form = "AnnAssign" THEN
        IF targets = <<>> THEN Abnormal(<<"Assignment target must be a single name">>)
        ELSE IF st.value.kind # "Call" THEN Abnormal(<<"Assigned value must be a call">>)
        ELSE Normal(targets[1].id, st.value)
    ELSE Abnormal(<<"Only assignment statements are allowed">>)

normalize(st) == NormalizeTargets(st, NameTargets(st))

KeyedKws(named) == [i \in 1..Len(named) |-> Keyed(StrRank(named[i].arg), 0, named[i])]

\* the keywords that _call_signature dumps: those with a name, sorted by name
kws_dump(call) == Sorted(KeyedKws(SelectSeq(call.kws, LAMBDA k : k.arg # "")))

\* _call_signature
call_signature(call) == [fn |-> call.fn, args |-> call.args, kws |-> kws_dump(call)]

\* a comparison that keeps the default keyword
strip_default_kept(kws) == kws

\* the inner function strip_default of _validate_default_only
strip_default(kws) == SelectSeq(kws, LAMBDA k : k.arg # "default")

\* the comparison of the two signatures (param_tools.py lines 167-177)
SameSignature(bs, as) ==
    IF bs.fn # as.fn \/ bs.args # as.args
    THEN <<"Parameter call signature (func/args) must not change">>
    ELSE IF strip_default(bs.kws) # strip_default(as.kws)
    THEN <<"Only the default= keyword may change">>
    ELSE Ok

\* param_tools.py lines 158-177 on the two normalized statements
DefaultOnly(b, a) ==
    IF b.err # Ok THEN b.err
    ELSE IF a.err # Ok THEN a.err
    ELSE IF b.name # a.name THEN <<"Assignment target must match">>
    ELSE IF ~is_param_call(b.value) \/ ~is_param_call(a.value)
    THEN <<"Assigned value must be a Parameter(...) call">>
    ELSE SameSignature(call_signature(b.value), call_signature(a.value))

\* _validate_default_only: Ok when the change is accepted, else the error raised
validate_default_only(before_stmt, after_stmt) ==
    DefaultOnly(normalize(before_stmt), normalize(after_stmt))

\* attr_tools._ALLOWED_ATTRS
ALLOWED_ATTRS == {"stoploss", "trailing_stop", "trailing_stop_positive",
                  "trailing_stop_positive_offset", "trailing_only_offset_is_reached"}

\* attr_tools._normalize_assignment
normalize_assignment(st) ==
    IF st.form = "Assign" THEN
        IF Len(st.targets) # 1 THEN Abnormal(<<"Assignment must have exactly one target">>)
        ELSE IF ~st.targets[1].isName THEN Abnormal(<<"Assignment target must be a name">>)
        ELSE Normal(st.targets[1].id, st.value)
    ELSE IF st.form = "AnnAssign" THEN
        IF ~st.targets[1].isName THEN Abnormal(<<"Assignment target must be a name">>)
        ELSE IF st.value.kind = "None"
        THEN Abnormal(<<"Annotated assignment must have a value">>)
        ELSE Normal(st.targets[1].id, st.value)
    ELSE Abnormal(<<"Only assignment statements are allowed">>)

\* a literal test that lets calls through
IsConstant_or_call(value) == value.kind \in {"Constant", "Call"}

\* isinstance(value, ast.Constant)
IsConstant(value) == value.kind = "Constant"

\* attr_tools.py lines 125-135 on the two normalized statements
LiteralChange(b, a) ==
    IF b.err # Ok THEN b.err
    ELSE IF a.err # Ok THEN a.err
    ELSE IF b.name # a.name THEN <<"Assignment target must match">>
    ELSE IF b.name \notin ALLOWED_ATTRS THEN <<"Attribute not allowed">>
    ELSE IF ~IsConstant(b.value) \/ ~IsConstant(a.value)
    THEN <<"Only literal (constant) assignments are allowed">>
    ELSE Ok

\* attr_tools._validate_literal_change
validate_literal_change(before_stmt, after_stmt) ==
    LiteralChange(normalize_assignment(before_stmt), normalize_assignment(after_stmt))

\* ------------------------------------------------------- attribute indexer

\* attr_tools._get_assignment
get_assignment(node) ==
    IF node.form = "Assign" THEN
        IF Len(node.targets) # 1 THEN NoAssignment
        ELSE IF ~node.targets[1].isName \/ node.targets[1].id \notin ALLOWED_ATTRS
             THEN NoAssignment
        ELSE [ok |-> TRUE, name |-> node.targets[1].id]
    ELSE IF node.form = "AnnAssign" THEN
        IF ~node.targets[1].isName \/ node.targets[1].id \notin ALLOWED_ATTRS
        THEN NoAssignment
        ELSE IF node.value.kind = "None" THEN NoAssignment
        ELSE [ok |-> TRUE, name |-> node.targets[1].id]
    ELSE NoAssignment

\* attr_tools._find_strategy_class: the first class of the module
attr_find_strategy_class(tree) == First(SelectSeq(Body(tree), IsClass))

\* attr_tools._safe_literal: ast.literal_eval of an assigned value, <<>> (None)
\* when it is no literal
literal_value(v) ==
    IF v.kind = "Constant" THEN <<v.lit>>
    ELSE IF v.kind = "UnaryOp" THEN <<"-", v.lit>>
    ELSE <<>>

\* the entry that _extract appends for statement st (lines 79-88)
AttrEntry(st, name, lines) ==
    Keyed(st.line, 0,
          [name |-> name, line |-> st.line, endLine |-> st.endLine,
           value |-> literal_value(st.node.value),
           before |-> join(Slice(lines, st.line - 1, st.endLine))])

AttrEntries(found, lines) ==
    [i \in 1..Len(found) |-> AttrEntry(found[i].st, found[i].pa.name, lines)]

ClassAssignments(children) ==
    SelectSeq([i \in 1..Len(children) |-> WithAssignment(children[i], get_assignment(children[i].node))],
              LAMBDA f : f.pa.ok)

ExtractFrom(tree, cls, lines) ==
    IF cls = <<>> THEN <<>>
    ELSE Sorted(AttrEntries(ClassAssignments(Children(tree, cls[1])), lines))

\* attr_tools._extract
extract(tree, src) == ExtractFrom(tree, attr_find_strategy_class(tree), splitlines(src))

\* -------------------------------------------------- by-name apply commands

\* by_name = {p["name"]: p for p in entries}: for a name that occurs more than
\* once the last entry wins; by_name.get(name) as a sequence of at most one
by_name_get(entries, name) == LastOf(SelectSeq(entries, LAMBDA p : p.name = name))

\* the entries that cmd_apply of param_tools or of attr_tools builds at entry
EntriesOf(which, tree, source) ==
    IF which = "param" THEN extract_assignments(tree, source) ELSE extract(tree, source)

\* the validator of each by-name tool on the two parsed statements
Validated(which, b_stmt, a_stmt) ==
    IF b_stmt.err # Ok THEN b_stmt.err
    ELSE IF a_stmt.err # Ok THEN a_stmt.err
    ELSE IF which = "param" THEN validate_default_only(b_stmt.node, a_stmt.node)
    ELSE validate_literal_change(b_stmt.node, a_stmt.node)

\* the statement check of one change: param_tools.py lines 219-221,
\* attr_tools.py lines 177-179
validate_change(which, before, after) ==
    Validated(which, parse_statement(before), parse_statement(after))

\* the comparison of the current segment with the declared before text:
\* param_tools.py line 216, attr_tools.py line 174
before_matches(current_seg, before) == current_seg = before

\* param_tools.py lines 219-224, attr_tools.py lines 177-181: the splice of the
\* segment lines[start:end] unless the validator raised verdict
ChangeValidated(lines, ch, start, end, current_seg, verdict) ==
    IF verdict # Ok
    THEN Outcome(verdict, lines, NoEntry, TRUE, start + 1, end, current_seg)
    ELSE Outcome(Ok, Splice(lines, start, end, splitlines(ch.after.s)), NoEntry, TRUE,
                 start + 1, end, current_seg)

\* param_tools.py lines 216-224, attr_tools.py lines 174-181
ChangeSegment(which, lines, ch, start, end, current_seg) ==
    IF ~before_matches(current_seg, ch.before.s)
    THEN Outcome(<<"before mismatch for", ch.name>>, lines, NoEntry, TRUE,
                 start + 1, end, current_seg)
    ELSE ChangeValidated(lines, ch, start, end, current_seg,
                         validate_change(which, ch.before.s, ch.after.s))

ChangeAt(which, lines, ch, start, end) ==
    ChangeSegment(which, lines, ch, start, end, join(Slice(lines, start, end)))

ChangeFound(which, lines, ch, meta) ==
    IF meta = <<>>
    THEN Raise(<<IF which = "param" THEN "unknown parameter:" ELSE "unknown attribute:",
                 ch.name>>, lines)
    ELSE ChangeAt(which, lines, ch, meta[1].line - 1, meta[1].endLine)

\* one iteration of the loop of param_tools.cmd_apply (lines 200-224) or of
\* attr_tools.cmd_apply (lines 158-181); entries is the index built at entry
apply_change(which, lines, ch, entries) ==
    IF ~ch.isDict THEN Raise(<<"each change must be an object">>, lines)
    ELSE IF ch.name = "" \/ ~ch.before.isStr \/ ~ch.after.isStr
    THEN Raise(<<"change must include name, before, after">>, lines)
    ELSE ChangeFound(which, lines, ch, by_name_get(entries, ch.name))

\* ------------------------------------------------------------ diff, report

\* str.splitlines(): the lines without their terminators
splitlines_bare(t) == Contents(splitlines(t))

\* difflib.unified_diff: nothing for equal line lists, else the hunks, which are
\* a function of the two lists and are represented by them
unified_diff(before_lines, after_lines) ==
    IF before_lines = after_lines THEN <<>>
    ELSE <<[fromfile |-> before_lines, tofile |-> after_lines]>>

\* _diff_text
diff_text(before, after) == unified_diff(splitlines_bare(before), splitlines_bare(after))

NoOutput == [success |-> FALSE, dryRun |-> FALSE, diff |-> <<>>, content |-> <<>>,
             applied |-> <<>>]

\* ------------------------------------------------------------------- files

Line(n, tok) == [i \in 1..n |-> IND] \o <<tok, LF>>
LineCRLF(n, tok) == [i \in 1..n |-> IND] \o <<tok, CR, LF>>

\* a strategy module: docstring, three imports, the strategy class
FileA ==
    Line(0, Doc) \o Line(0, ImpOs) \o Line(0, ImpSys) \o Line(0, ImpTa)
    \o Line(0, ClsS) \o Line(1, PX7) \o Line(1, SLneg05) \o Line(1, TSFalse)
    \o Line(1, DefPI) \o Line(2, Pass) \o Line(1, DefF) \o Line(2, Pass)

\* a module without class or imports whose last line has no terminator
FileB == Line(0, PX7) \o Line(0, DefF) \o Line(1, Pass) \o <<Pass, SEMI>>

\* a module with CRLF line ends and a class that has no base
FileC == LineCRLF(0, ImpOs) \o LineCRLF(0, ClsH) \o LineCRLF(1, TSFalse) \o LineCRLF(1, PXnodef)

Files == {FileA, FileB, FileC}

\* ------------------------------------------------------------------ inputs

Indent(seg) == [i \in 1..LeadInd(seg) |-> IND]
\* a statement at the indentation of the segment it replaces
At(seg, tok) == Indent(seg) \o <<tok, LF>>
DropLastLF(t) == IF t # <<>> /\ t[Len(t)] = LF THEN SubSeq(t, 1, Len(t) - 1) ELSE t

ParamX == Target("param", "x", 0, 0)
FuncF == Target("function", "f", 0, 0)
ClassS == Target("class", "S", 0, 0)
Range(a, b) == Target("range", "", a, b)

EchoTargets == {ParamX, FuncF, ClassS, Range(1, 1), Range(2, 2)}

\* the text that a caller who has read the buffer echoes for each target
CurrentSegments(ls, index) ==
    [t \in EchoTargets |-> resolve_replace_target(t, index, ls).segment]

ReplaceEditsOf(n, px, ff, cs, r1, r2) ==
    { Replace(ParamX, Str(px), Str(At(px, PX9))),
      Replace(ParamX, Str(px), Str(At(px, PXsell))),
      Replace(ParamX, Str(px), Str(At(px, Pass))),
      Replace(ParamX, Str(At(px, PXargs)), Str(At(px, PX9))),
      Replace(ParamX, Str(DropLastLF(px)), Str(DropLastLF(At(px, PX9)))),
      Replace(ParamX, Str(px \o <<LF, LF>>), Str(At(px, PX9))),
      Replace(FuncF, Str(ff), Str(ff \o Indent(ff) \o <<IND, Pass, LF>>)),
      Replace(FuncF, Str(<<DefF, LF>>), Str(ff)),
      Replace(ClassS, Str(cs), Str(<<ClsH, LF, IND, Pass, LF>>)),
      Replace(Range(2, 2), Str(r2), Str(<<>>)),
      Replace(Range(1, 1), Str(r1), Str(<<Pass, SEMI>>)),
      Replace(Range(0, 1), Str(<<>>), Str(<<>>)),
      Replace(Range(1, n + 1), Str(<<>>), Str(<<>>)),
      Replace(Range(2, 1), Str(<<>>), Str(<<>>)),
      Replace(Target("function", "g", 0, 0), Str(<<>>), Str(<<>>)),
      Replace(Target("param", "", 0, 0), Str(<<>>), Str(<<>>)),
      Replace(Target("module", "", 0, 0), Str(<<>>), Str(<<>>)),
      Replace(NoDict, Str(<<>>), Str(<<>>)),
      Replace(ParamX, NoStr, Str(<<>>)) }

ReplaceEditsFor(n, seg) ==
    ReplaceEditsOf(n, seg[ParamX], seg[FuncF], seg[ClassS], seg[Range(1, 1)], seg[Range(2, 2)])

ReplaceEditsParsed(ls, tree, text) ==
    ReplaceEditsFor(Len(ls), CurrentSegments(ls, build_index(tree, text)))

ReplaceEditsIn(ls, text) == ReplaceEditsParsed(ls, parse(text), text)

ReplaceEdits(ls) == ReplaceEditsIn(ls, join(ls))

InsertEdits ==
    { Insert(Anchor("after_imports", ""), Str(<<ImpNp, LF>>)),
      Insert(Anchor("after_imports", ""), Str(<<ImpNp, LF, Pass>>)),
      Insert(Anchor("module_end", ""), Str(<<Pass, LF>>)),
      Insert(Anchor("module_end", ""), Str(<<Pass>>)),
      Insert(Anchor("after_function", "f"), Str(<<IND, PY7, LF>>)),
      Insert(Anchor("after_function", "g"), Str(<<Pass, LF>>)),
      Insert(Anchor("class_end", ""), Str(<<IND, Pass>>)),
      Insert(Anchor("class_end", "S"), Str(<<IND, PY7, LF>>)),
      Insert(Anchor("class_end", "Z"), Str(<<Pass, LF>>)),
      Insert(Anchor("heuristic_indicators", ""), Str(<<IND, IND, Pass, LF>>)),
      Insert(Anchor("top", ""), Str(<<Pass, LF>>)),
      Insert(NoDict, Str(<<Pass, LF>>)),
      Insert(Anchor("module_end", ""), NoStr) }

OtherEdits == { NotAnObject, [NotAnObject EXCEPT !.isDict = TRUE, !.kind = "delete"] }

EntryText(meta, ls) ==
    IF meta = <<>> THEN <<>> ELSE join(Slice(ls, meta[1].line - 1, meta[1].endLine))

\* the text at the coordinates that the by-name tools use for a name
EntrySegment(index, name, ls) == EntryText(by_name_get(index, name), ls)

ParamChangesOf(px) ==
    { Change("x", Str(px), Str(At(px, tok))) :
         tok \in {PX7, PX9, PXsell, PXsell9, PXnodef, PXstar, PXqual, PXann, PXargs,
                  PXfn, PXtwo, PXcall, PXlit, PY7, Pass} }
    \cup
    { Change("x", Str(px), Str(Indent(px) \o <<PX9, SEMI, Pass, LF>>)),
      Change("x", Str(px), Str(<<>>)),
      Change("x", Str(px), Str(<<LF>> \o At(px, PX9))),
      Change("x", Str(At(px, PXargs)), Str(At(px, PX9))),
      Change("x", Str(DropLastLF(px)), Str(At(px, PX9))),
      Change("y", Str(<<>>), Str(<<>>)),
      Change("", Str(<<>>), Str(<<>>)),
      NotAnObject }

ParamChanges(index, ls) == ParamChangesOf(EntrySegment(index, "x", ls))

AttrChangesOf(ts, sl) ==
    { Change("trailing_stop", Str(ts), Str(At(ts, tok))) :
         tok \in {TSTrue, TSFalse, TScall, TSann, TStwo, SLneg05, Pass} }
    \cup
    { Change("stoploss", Str(sl), Str(At(sl, tok))) : tok \in {SLneg1, SLcall} }
    \cup
    { Change("trailing_stop", Str(ts), Str(Indent(ts) \o <<TSTrue, SEMI, Pass, LF>>)),
      Change("trailing_stop", Str(ts), Str(<<>>)),
      Change("trailing_stop", Str(ts), Str(<<LF>> \o At(ts, TSTrue))),
      Change("trailing_stop", Str(At(ts, TSTrue)), Str(At(ts, TSFalse))),
      Change("timeframe", Str(<<TFlit, LF>>), Str(<<TFlit2, LF>>)),
      NotAnObject }

AttrChanges(index, ls) ==
    AttrChangesOf(EntrySegment(index, "trailing_stop", ls), EntrySegment(index, "stoploss", ls))

ChangesFor(which, index, ls) ==
    IF which = "param" THEN ParamChanges(index, ls) ELSE AttrChanges(index, ls)

\* ------------------------------------------------------------------- state

VARIABLES
    disk,       \* the content of the strategy file
    pc,         \* "idle", "running", "done" or "failed"
    tool,       \* the command that runs: "edit", "param" or "attr"
    dryRun,     \* payload.get("dryRun")
    src,        \* the text read at entry
    entries,    \* the entries that a by-name tool extracts at entry
    lines,      \* the line buffer
    prev,       \* the line buffer before the last iteration
    k,          \* the number of list elements processed, of runs in index mode
    applied,    \* the applied list of _apply_edits
    last,       \* the list element of the last iteration and its outcome
    out,        \* the JSON object written to standard output
    inv         \* two invocations of edit_tools apply, each with its own state

vars == <<disk, pc, tool, dryRun, src, entries, lines, prev, k, applied, last, out, inv>>

NoLast == [edit |-> NotAnObject, err |-> Ok, reached |-> FALSE,
           start |-> 0, end |-> 0, segment |-> <<>>]

\* an invocation of edit_tools apply that has not read the file; src is the
\* text it reads at entry, file the file as it finds and leaves it
run_idle ==
    [pc |-> "idle", dryRun |-> FALSE, src |-> <<>>, file |-> <<>>, lines |-> <<>>,
     applied |-> <<>>,
     edit |-> NotAnObject, err |-> Ok, out |-> NoOutput]

Init ==
    /\ disk \in Files
    /\ pc = "idle"
    /\ tool = ""
    /\ dryRun = FALSE
    /\ src = <<>>
    /\ entries = <<>>
    /\ lines = <<>>
    /\ prev = <<>>
    /\ k = 0
    /\ applied = <<>>
    /\ last = NoLast
    /\ out = NoOutput
    /\ inv = <<run_idle, run_idle>>

\* a command that saves the buffer after every list element
file_after_each_step(next_pc, dry_run, file, new_src) ==
    IF ~dry_run THEN new_src ELSE file

\* a command that writes the file at the end of every run, dry or not
file_after_any_run(next_pc, dry_run, file, new_src) ==
    IF next_pc = "done" THEN new_src ELSE file

\* the file after a step that moves the command to next_pc: it is written once,
\* after the loop, unless the run is a dry run
file_after(next_pc, dry_run, file, new_src) ==
    IF next_pc = "done" /\ ~dry_run THEN new_src ELSE file

\* edit_tools.cmd_apply up to the loop (lines 417-422, 353-354)
StartEdit ==
    /\ pc = "idle"
    /\ \E isList \in BOOLEAN, dry \in BOOLEAN :
        /\ pc' = IF isList THEN "running" ELSE "failed"
        /\ dryRun' = dry
        /\ last' = [NoLast EXCEPT !.err = IF isList THEN Ok ELSE <<"edits must be a list">>]
    /\ tool' = "edit"
    /\ src' = disk
    /\ entries' = <<>>
    /\ lines' = splitlines(disk)
    /\ prev' = splitlines(disk)
    /\ UNCHANGED <<disk, k, applied, out, inv>>

\* the by-name command which up to its loop, tree being the parsed file
Started(which, isList, tree) ==
    /\ tool' = which
    /\ pc' = IF tree.ok /\ isList THEN "running" ELSE "failed"
    /\ entries' = IF tree.ok THEN EntriesOf(which, tree, disk) ELSE <<>>
    /\ last' = [NoLast EXCEPT !.err = IF ~tree.ok THEN <<"SyntaxError">>
                                      ELSE IF ~isList THEN <<"changes must be a list">>
                                      ELSE Ok]

\* param_tools.cmd_apply (lines 188-198) and attr_tools.cmd_apply (lines 146-156)
\* up to the loop
StartChange ==
    /\ pc = "idle"
    /\ \E which \in {"param", "attr"}, isList \in BOOLEAN : Started(which, isList, parse(disk))
    /\ dryRun' = FALSE
    /\ src' = disk
    /\ lines' = splitlines(disk)
    /\ prev' = splitlines(disk)
    /\ UNCHANGED <<disk, k, applied, out, inv>>

\* the effect of one loop iteration with outcome o on list element e
Iterate(e, o) ==
    /\ pc' = IF o.err = Ok THEN "running" ELSE "failed"
    /\ lines' = o.lines
    /\ prev' = lines
    /\ k' = k + 1
    /\ applied' = IF o.err = Ok /\ tool = "edit" THEN Append(applied, o.entry) ELSE applied
    /\ last' = [edit |-> e, err |-> o.err, reached |-> o.reached,
                start |-> o.start, end |-> o.end, segment |-> o.segment]
    /\ disk' = file_after(pc', dryRun, disk, join(o.lines))
    /\ UNCHANGED <<tool, dryRun, src, entries, out, inv>>

\* one iteration of the loop of _apply_edits
StepEdit ==
    /\ pc = "running"
    /\ tool = "edit"
    /\ k < MaxEdits
    /\ \E e \in ReplaceEdits(lines) \cup InsertEdits \cup OtherEdits :
        Iterate(e, apply_edit(lines, e, src))

\* one iteration of the loop of param_tools.cmd_apply or attr_tools.cmd_apply
StepChange ==
    /\ pc = "running"
    /\ tool \in {"param", "attr"}
    /\ k < MaxEdits
    /\ \E ch \in ChangesFor(tool, entries, lines) :
        Iterate(ch, apply_change(tool, lines, ch, entries))

\* a report whose diff is taken against the file as the command left it
Report_of_file(which, dry_run, original, new_src, applied_list) ==
    IF which = "edit"
    THEN [success |-> TRUE, dryRun |-> dry_run,
          diff |-> diff_text(IF dry_run THEN original ELSE new_src, new_src),
          content |-> new_src, applied |-> applied_list]
    ELSE [NoOutput EXCEPT !.success = TRUE]

\* the report of edit_tools.cmd_apply (lines 425, 430-441) for new_src, and of
\* the by-name commands
Report(which, dry_run, original, new_src, applied_list) ==
    IF which = "edit"
    THEN [success |-> TRUE, dryRun |-> dry_run, diff |-> diff_text(original, new_src),
          content |-> new_src, applied |-> applied_list]
    ELSE [NoOutput EXCEPT !.success = TRUE]

\* the end of the list: edit_tools.cmd_apply lines 424-441,
\* param_tools.cmd_apply lines 226-228, attr_tools.cmd_apply lines 183-185
Finish ==
    /\ pc = "running"
    /\ pc' = "done"
    /\ disk' = file_after(pc', dryRun, disk, join(lines))
    /\ out' = Report(tool, dryRun, src, join(lines), applied)
    /\ UNCHANGED <<tool, dryRun, src, entries, lines, prev, k, applied, last, inv>>

Next == StartEdit \/ StartChange \/ StepEdit \/ StepChange \/ Finish

Spec == Init /\ [][Next]_vars

\* ------------------------------------------------------ index mode, lookups

MaxBlocks == 3
MaxRuns == 2

\* a class with one method, a top-level function
ClassBlock(header, def) == Line(0, header) \o Line(1, def) \o Line(2, Pass)
MethodBlock(def) == Line(1, def) \o Line(2, Pass)
FunctionBlock(def) == Line(0, def) \o Line(1, Pass)

Blocks ==
    {ClassBlock(ClsH, DefF), ClassBlock(ClsH, DefPI),
     ClassBlock(ClsS, DefF), ClassBlock(ClsS, DefPI),
     FunctionBlock(DefF), FunctionBlock(DefPI)}

\* the modules of up to MaxBlocks classes and functions in any order
Modules == {join(s) : s \in UNION {[1..n -> Blocks] : n \in 1..MaxBlocks}}

LookupNames == {"f", "populate_indicators", "g"}

DefOf(name) == IF name = "f" THEN DefF ELSE DefPI

\* requests that look a function up by name: replace targets, whose before
\* text is the text of a method or of a function, and after_function anchors;
\* and an insert at the heuristic_indicators anchor
LookupEdits ==
    {Replace(Target("function", n, 0, 0), Str(MethodBlock(DefOf(n))),
             Str(MethodBlock(DefOf(n)))) : n \in LookupNames}
    \cup {Replace(Target("function", n, 0, 0), Str(FunctionBlock(DefOf(n))),
                  Str(FunctionBlock(DefOf(n)))) : n \in LookupNames}
    \cup {Insert(Anchor("after_function", n), Str(Line(0, Pass))) : n \in LookupNames}
    \cup {Insert(Anchor("heuristic_indicators", ""), Str(Line(2, Pass)))}

\* a command that opens the file for writing
file_opened_for_writing(file) == <<>>

\* cmd_index opens the file for reading (line 410) and writes to standard
\* output only (line 413)
file_after_index(file) == file

\* cmd_index lines 411-413
IndexOutput(tree, text) ==
    [success |-> tree.ok, index |-> IF tree.ok THEN <<build_index(tree, text)>> ELSE <<>>]

\* edit_tools.cmd_index; it may be run again on the file it left
CmdIndex ==
    /\ pc = "idle" \/ tool = "index"
    /\ k < MaxRuns
    /\ tool' = "index"
    /\ src' = disk
    /\ out' = IndexOutput(parse(disk), disk)
    /\ pc' = IF out'.success THEN "done" ELSE "failed"
    /\ disk' = file_after_index(disk)
    /\ k' = k + 1
    /\ UNCHANGED <<dryRun, entries, lines, prev, applied, last, inv>>

\* one iteration of the loop of _apply_edits on a request that names a function
StepLookup ==
    /\ pc = "running"
    /\ tool = "edit"
    /\ k < 1
    /\ \E e \in LookupEdits : Iterate(e, apply_edit(lines, e, src))

InitIndex ==
    /\ disk \in Modules \cup Files
    /\ pc = "idle"
    /\ tool = ""
    /\ dryRun = FALSE
    /\ src = <<>>
    /\ entries = <<>>
    /\ lines = <<>>
    /\ prev = <<>>
    /\ k = 0
    /\ applied = <<>>
    /\ last = NoLast
    /\ out = NoOutput
    /\ inv = <<run_idle, run_idle>>

NextIndex == CmdIndex \/ StartEdit \/ StepLookup

\* index mode, and apply on requests that name functions, on the modules
SpecIndex == InitIndex /\ [][NextIndex]_vars

\* ------------------------------------------------- two invocations of apply

\* an invocation that reads the file again before every edit
buffer_read_again(run_lines, file) == splitlines(file)

\* the buffer on which _apply_edits resolves and checks an edit: the list made
\* from the text read at entry (line 353) and spliced since; the file is not
\* read again
buffer_of(run_lines, file) == run_lines

\* edit_tools.cmd_apply up to the loop (lines 417-422, 353-354)
run_start(file, dry, isList) ==
    [run_idle EXCEPT !.pc = IF isList THEN "running" ELSE "failed",
                     !.dryRun = dry, !.src = file, !.file = file,
                     !.lines = splitlines(file),
                     !.err = IF isList THEN Ok ELSE <<"edits must be a list">>]

\* the effect of one loop iteration with outcome o on list element e
run_iterate(run, e, o) ==
    [run EXCEPT !.pc = IF o.err = Ok THEN "running" ELSE "failed",
                !.lines = o.lines,
                !.applied = IF o.err = Ok THEN Append(run.applied, o.entry) ELSE run.applied,
                !.edit = e, !.err = o.err]

\* one iteration of the loop of _apply_edits, the file being as it is now
run_step(run, e, file) == run_iterate(run, e, apply_edit(buffer_of(run.lines, file), e, run.src))

\* edit_tools.cmd_apply lines 424-441; file is the file as the run leaves it
run_finish(run) ==
    [run EXCEPT !.pc = "done",
                !.file = file_after("done", run.dryRun, run.file, join(run.lines)),
                !.out = Report("edit", run.dryRun, run.src, join(run.lines), run.applied)]

\* the same request with dryRun true and with dryRun false, each on its own
\* copy of the file
TwinStart ==
    /\ inv[1].pc = "idle" /\ inv[2].pc = "idle"
    /\ \E isList \in BOOLEAN :
        inv' = <<run_start(disk, TRUE, isList), run_start(disk, FALSE, isList)>>
    /\ UNCHANGED <<disk, pc, tool, dryRun, src, entries, lines, prev, k, applied, last, out>>

\* both runs process the next element of the list
TwinStep ==
    /\ inv[1].pc = "running" /\ inv[2].pc = "running"
    /\ Len(inv[1].applied) < MaxEdits
    /\ \E e \in ReplaceEdits(inv[1].lines) \cup InsertEdits \cup OtherEdits :
        inv' = [i \in 1..2 |-> run_step(inv[i], e, inv[i].file)]
    /\ UNCHANGED <<disk, pc, tool, dryRun, src, entries, lines, prev, k, applied, last, out>>

\* both runs reach the end of the list
TwinFinish ==
    /\ inv[1].pc = "running" /\ inv[2].pc = "running"
    /\ inv' = [i \in 1..2 |-> run_finish(inv[i])]
    /\ UNCHANGED <<disk, pc, tool, dryRun, src, entries, lines, prev, k, applied, last, out>>

NextTwin == TwinStart \/ TwinStep \/ TwinFinish

\* two runs of one request that differ in the dryRun flag only
SpecTwin == Init /\ [][NextTwin]_vars

\* the requests of two callers who have read text: each holds one edit whose
\* before text is the text that the target has in it
RaceEditsOf(px, ff) ==
    { Replace(ParamX, Str(px), Str(At(px, PX9))),
      Replace(ParamX, Str(px), Str(At(px, PXsell))),
      Replace(FuncF, Str(ff), Str(ff \o Indent(ff) \o <<IND, Pass, LF>>)),
      Insert(Anchor("module_end", ""), Str(<<Pass, LF>>)) }

RaceEditsFor(seg) == RaceEditsOf(seg[ParamX], seg[FuncF])

RaceEditsIn(ls, tree, text) == RaceEditsFor(CurrentSegments(ls, build_index(tree, text)))

RaceEdits(text) == RaceEditsIn(splitlines(text), parse(text), text)

\* invocation i reads the file: cmd_apply line 417
RaceStart(i) ==
    /\ inv[i].pc = "idle"
    /\ inv' = [inv EXCEPT ![i] = run_start(disk, FALSE, TRUE)]
    /\ UNCHANGED <<disk, pc, tool, dryRun, src, entries, lines, prev, k, applied, last, out>>

\* invocation i processes the edit of its request
RaceStep(i) ==
    /\ inv[i].pc = "running"
    /\ inv[i].applied = <<>>
    /\ \E e \in RaceEdits(src) : inv' = [inv EXCEPT ![i] = run_step(inv[i], e, disk)]
    /\ UNCHANGED <<disk, pc, tool, dryRun, src, entries, lines, prev, k, applied, last, out>>

\* invocation i writes the file and reports: cmd_apply lines 424-441
RaceFinish(i) ==
    /\ inv[i].pc = "running"
    /\ inv' = [inv EXCEPT ![i] = run_finish([inv[i] EXCEPT !.file = disk])]
    /\ disk' = inv'[i].file
    /\ UNCHANGED <<pc, tool, dryRun, src, entries, lines, prev, k, applied, last, out>>

\* src is the text that both callers read when they wrote their requests
InitRace ==
    /\ disk \in Files
    /\ pc = "idle"
    /\ tool = ""
    /\ dryRun = FALSE
    /\ src = disk
    /\ entries = <<>>
    /\ lines = <<>>
    /\ prev = <<>>
    /\ k = 0
    /\ applied = <<>>
    /\ last = NoLast
    /\ out = NoOutput
    /\ inv = <<run_idle, run_idle>>

NextRace == \E i \in 1..2 : RaceStart(i) \/ RaceStep(i) \/ RaceFinish(i)

\* two invocations of edit_tools apply on one file, their steps interleaved
SpecRace == InitRace /\ [][NextRace]_vars

\* ------------------------------------------------------------- more files

\* a module whose first class is a helper and whose second is the strategy
FileD ==
    Line(0, ClsH) \o Line(1, TSFalse)
    \o Line(0, ClsS) \o Line(1, SLneg05) \o Line(1, PX7)

\* a strategy class with assignments to several targets and two of the name x
FileE ==
    Line(0, ClsS) \o Line(1, PXtwo) \o Line(1, TStwo) \o Line(1, PXxy) \o Line(1, PX9)

\* a module in which a statement precedes the imports
FileF == Line(0, Pass) \o Line(0, ImpOs) \o Line(0, ImpSys) \o Line(0, PX7)

MoreFiles == {FileD, FileE, FileF}

InitMore ==
    /\ disk \in MoreFiles
    /\ pc = "idle"
    /\ tool = ""
    /\ dryRun = FALSE
    /\ src = <<>>
    /\ entries = <<>>
    /\ lines = <<>>
    /\ prev = <<>>
    /\ k = 0
    /\ applied = <<>>
    /\ last = NoLast
    /\ out = NoOutput
    /\ inv = <<run_idle, run_idle>>

\* the three apply commands on these files
SpecMore == InitMore /\ [][Next]_vars

\* ------------------------------------------------------------- properties

\* the statement that a text consists of
StatementNode(text) == parse_statement(text).node

\* the list element of the last iteration is a change that was accepted
Accepted(which) == tool = which /\ k > 0 /\ last.err = Ok

\* the last iteration raised, and so left the buffer and the file alone
Rejected == last.err # Ok /\ pc = "failed" /\ lines = prev /\ disk = src

\* C1: in the three apply commands a request is all-or-nothing on disk: while
\* the list is being processed and after any element has failed, the file is
\* exactly the file read at entry, whatever was applied to the buffer; it is
\* written only once the whole list has succeeded.
AllOrNothing == pc \in {"running", "failed"} => disk = src

\* a request whose second element failed after the first changed the buffer
FailedAfterApplied == pc = "failed" /\ k > 1 /\ join(lines) # src /\ disk = src

\* the comparison that the specification allows: CRLF and LF are equivalent and
\* one trailing newline may be missing on either side
AllowedMatch(s, b) == s = b \/ s = Append(b, LF) \/ b = Append(s, LF)

\* C2: a replace whose before text does not match the text at the resolved
\* span, after the allowed normalization, fails with "before mismatch", the
\* buffer is not spliced and the file is unmodified.
BeforeMismatchFails ==
    (k > 0 /\ last.reached
     /\ ~AllowedMatch(normalize_text(last.segment), normalize_text(last.edit.before.s)))
    => (Rejected /\ Head(last.err) = "before mismatch for")

SameKeywordsButDefault(bk, ak) ==
    /\ Len(bk) = Len(ak)
    /\ \A i \in 1..Len(bk) :
        /\ bk[i].arg = ak[i].arg
        /\ bk[i].arg # "default" => bk[i].val = ak[i].val

SameCallButKeywords(bv, av) ==
    /\ bv.kind = "Call" /\ av.kind = "Call"
    /\ bv.qual = av.qual /\ bv.fn = av.fn /\ bv.args = av.args

SameStatementForm(b, a) == b.form = a.form /\ b.ann = a.ann /\ b.targets = a.targets

\* the two statements differ in nothing but the value of the default keyword
OnlyDefaultDiffers(b, a) ==
    /\ SameStatementForm(b, a)
    /\ SameCallButKeywords(b.value, a.value)
    /\ SameKeywordsButDefault(b.value.kws, a.value.kws)

\* the two statements differ in nothing but the assigned literal
OnlyLiteralDiffers(b, a) ==
    /\ SameStatementForm(b, a)
    /\ b.value.kind \in {"Constant", "UnaryOp"}
    /\ a.value.kind \in {"Constant", "UnaryOp"}

\* C3: for every pair that the safety validator accepts, the after statement
\* differs from the before statement in nothing but the assigned literal
\* (attribute mode) or the value of the default keyword (parameter mode): form,
\* annotation, target, callee with its qualifier, positional arguments and
\* every other keyword or ** unpacking are identical.
AcceptedChangesValueOnly ==
    /\ Accepted("param") => OnlyDefaultDiffers(StatementNode(last.edit.before.s),
                                               StatementNode(last.edit.after.s))
    /\ Accepted("attr") => OnlyLiteralDiffers(StatementNode(last.edit.before.s),
                                              StatementNode(last.edit.after.s))

\* an assignment of a Parameter call to one name
IsParamStatement(b) ==
    /\ b.form \in {"Assign", "AnnAssign"}
    /\ Len(b.targets) = 1 /\ b.targets[1].isName
    /\ b.value.kind = "Call" /\ b.value.qual = "" /\ b.value.fn \in ParameterNames

\* some keyword other than default has another value, the rest being equal
OtherKeywordDiffers(b, a) ==
    /\ SameStatementForm(b, a)
    /\ SameCallButKeywords(b.value, a.value)
    /\ Len(b.value.kws) = Len(a.value.kws)
    /\ \A i \in 1..Len(b.value.kws) : b.value.kws[i].arg = a.value.kws[i].arg
    /\ \E i \in 1..Len(b.value.kws) :
        b.value.kws[i].arg \notin {"default", ""} /\ b.value.kws[i].val # a.value.kws[i].val

\* the last list element is a parameter change that passed the before check
ParamChangeChecked ==
    /\ tool = "param" /\ k > 0 /\ last.reached
    /\ last.segment = last.edit.before.s
    /\ parse_statement(last.edit.before.s).err = Ok
    /\ parse_statement(last.edit.after.s).err = Ok
    /\ IsParamStatement(StatementNode(last.edit.before.s))

DefaultChangeOutcome(b, a) ==
    /\ OnlyDefaultDiffers(b, a)
       => (last.err = Ok /\ pc # "failed"
           /\ lines = Splice(prev, last.start - 1, last.end, splitlines(last.edit.after.s)))
    /\ OtherKeywordDiffers(b, a)
       => (Rejected /\ last.err = <<"Only the default= keyword may change">>)

\* C4: a parameter change whose statements differ only in the value of the
\* default keyword is accepted, and one that alters the value of any other
\* keyword, alone or together with the default, is rejected.
DefaultOnlyAccepted ==
    ParamChangeChecked => DefaultChangeOutcome(StatementNode(last.edit.before.s),
                                               StatementNode(last.edit.after.s))

Holds(text, tok) == \E i \in 1..Len(text) : text[i] = tok

\* a request whose first change set default=9 and whose second change, which
\* alters space= as well, was rejected
DefaultAppliedThenSpaceRejected ==
    /\ tool = "param" /\ pc = "failed" /\ k = 2
    /\ Holds(src, PX7) /\ Holds(join(lines), PX9)
    /\ Holds(last.edit.after.s, PXsell)
    /\ last.err = <<"Only the default= keyword may change">>
    /\ disk = src

KeywordCount(kws, n) == Cardinality({i \in 1..Len(kws) : kws[i].arg = n})

SameKeywordSet(bk, ak) ==
    \A n \in {bk[i].arg : i \in 1..Len(bk)} \cup {ak[i].arg : i \in 1..Len(ak)} :
        KeywordCount(bk, n) = KeywordCount(ak, n)

SameCallShape(bv, av) ==
    /\ bv.fn = av.fn /\ bv.args = av.args
    /\ SameKeywordSet(bv.kws, av.kws)

\* C5: the parameter validator accepts a change only if both calls have the
\* same keyword names with the same multiplicity and the same ** unpackings,
\* and the same callee name and positional arguments; adding default, removing
\* it or adding a **mapping argument is rejected.
AcceptedKeepsKeywordSet ==
    Accepted("param") => SameCallShape(StatementNode(last.edit.before.s).value,
                                       StatementNode(last.edit.after.s).value)

SameWhitelistedName(b, a) ==
    /\ b.form \in {"Assign", "AnnAssign"} /\ a.form \in {"Assign", "AnnAssign"}
    /\ Len(b.targets) = 1 /\ Len(a.targets) = 1
    /\ b.targets[1].isName /\ a.targets[1] = b.targets[1]
    /\ b.targets[1].id \in ALLOWED_ATTRS

BothLiteral(b, a) == b.value.kind = "Constant" /\ a.value.kind = "Constant"

\* C6: the attribute validator rejects a change unless both statements assign
\* to the same single whitelisted name and both values are literal constants;
\* a change from a literal to a call is rejected, and a rejected change writes
\* nothing.
AttrAcceptedOnlyLiterals ==
    /\ Accepted("attr")
       => /\ SameWhitelistedName(StatementNode(last.edit.before.s),
                                 StatementNode(last.edit.after.s))
          /\ BothLiteral(StatementNode(last.edit.before.s),
                         StatementNode(last.edit.after.s))
    /\ (tool = "attr" /\ k > 0 /\ last.err # Ok) => Rejected

\* an attribute change from a literal to a call that matched the file and was
\* rejected by the validator
LiteralToCallRejected ==
    /\ tool = "attr" /\ k > 0 /\ last.reached
    /\ last.segment = last.edit.before.s
    /\ Holds(last.edit.before.s, TSFalse) /\ Holds(last.edit.after.s, TScall)
    /\ last.err = <<"Only literal (constant) assignments are allowed">>
    /\ disk = src /\ lines = prev

\* C7: in the general patch applier a replace whose target kind is param is
\* passed through the safety validator before the splice, so that an applied
\* param replace is one the validator accepts.
ParamReplaceValidated ==
    (Accepted("edit") /\ last.edit.kind = "replace" /\ last.edit.target.kind = "param")
    => validate_change("param", last.edit.before.s, last.edit.after.s) = Ok

OneAssignmentIn(ok, body) ==
    ok /\ Len(body) = 1 /\ body[1].node.form \in {"Assign", "AnnAssign"}

OneAssignmentTree(tree) == OneAssignmentIn(tree.ok, Body(tree))

\* the text parses to exactly one statement, a plain or annotated assignment
IsOneAssignment(text) == OneAssignmentTree(parse(dedent(text)))

StatementCount(text) == Len(Body(parse(dedent(text))))

\* C8: in attribute and parameter apply a change is rejected, and nothing is
\* written, whenever its before text or its after text parses to zero
\* statements, to more than one, or to one statement that is no assignment.
SingleAssignmentOnly ==
    (tool \in {"param", "attr"} /\ k > 0 /\ last.edit.isDict
     /\ last.edit.before.isStr /\ last.edit.after.isStr
     /\ (~IsOneAssignment(last.edit.before.s) \/ ~IsOneAssignment(last.edit.after.s)))
    => Rejected

\* a change whose before text matched and whose after text appends a second
\* statement, rejected
SecondStatementRejected ==
    /\ tool \in {"param", "attr"} /\ k > 0 /\ last.reached
    /\ last.segment = last.edit.before.s
    /\ StatementCount(last.edit.before.s) = 1
    /\ StatementCount(last.edit.after.s) = 2
    /\ last.err = <<"Expected exactly one statement">>
    /\ disk = src /\ lines = prev

\* the applied entry of edit when it is resolved against index on buffer ls
ExpectedReplace(target, r) == ReplaceEntry(target, r.start, r.end)
ExpectedInsert(anchor, a) == InsertEntry(anchor, a.at + 1, a.label)
ExpectedEntry(edit, index, ls) ==
    IF edit.kind = "replace"
    THEN ExpectedReplace(edit.target, resolve_replace_target(edit.target, index, ls))
    ELSE ExpectedInsert(edit.anchor, resolve_anchor(edit.anchor, index, ls))

ExpectedOf(edit, ls, text) == ExpectedEntry(edit, build_index(parse(text), text), ls)

\* the physical line holds an assignment to name
HoldsAssignmentTo(line, name) ==
    \E i \in 1..Len(line) :
        /\ Ast(line[i]).form \in {"Assign", "AnnAssign"}
        /\ \E j \in 1..Len(Ast(line[i]).targets) :
            Ast(line[i]).targets[j] = NameT(name)

\* C9: in the general patch applier the k-th edit is resolved against an index
\* rebuilt from the buffer as edits 1..k-1 left it, never against the index of
\* the original text, so that a by-name target resolves to the shifted lines
\* that hold the construct.
ResolvedAgainstCurrent ==
    Accepted("edit")
    => /\ Len(applied) = k
       /\ applied[k] = ExpectedOf(last.edit, prev, join(prev))
       /\ (last.edit.kind = "replace" /\ last.edit.target.kind = "param")
          => HoldsAssignmentTo(prev[applied[k].startLine], last.edit.target.name)

OriginalLine(found) == IF found = <<>> THEN 0 ELSE found[1].line

\* the line of parameter name in the index of the text
LineInIndexOf(tree, text, name) == OriginalLine(find_param(build_index(tree, text), name))

LineIn(text, name) == LineInIndexOf(parse(text), text, name)

\* a second edit that replaced a parameter on lines other than those it had in
\* the original text
ShiftedParamReplaced ==
    /\ Accepted("edit") /\ k = 2
    /\ last.edit.kind = "replace" /\ last.edit.target.kind = "param"
    /\ Len(prev) # Len(splitlines(src))
    /\ applied[2].startLine # LineIn(src, last.edit.target.name)

\* the lines of a content that is given a trailing newline
TerminatedLines(c) == splitlines(IF c # <<>> /\ c[Len(c)] = LF THEN c ELSE Append(c, LF))

IsImportLine(l) == Content(l) # <<>> /\ Ast(Content(l)[1]).form = "Import"

\* the text starts with a docstring followed by exactly three import lines
DocAndThreeImports(ls) ==
    /\ Len(ls) >= 4
    /\ Content(ls[1]) = <<Doc>>
    /\ \A i \in 2..4 : IsImportLine(ls[i])
    /\ Len(ls) >= 5 => ~IsImportLine(ls[5])

\* two inserts were applied, after_imports and then module_end
TwoInserts ==
    /\ Accepted("edit") /\ k = 2
    /\ DocAndThreeImports(splitlines(src))
    /\ applied[1].kind = "insert" /\ applied[1].anchor.kind = "after_imports"
    /\ applied[2].kind = "insert" /\ applied[2].anchor.kind = "module_end"

\* original is the file's lines, n1 the number of lines inserted first
PlacedIn(original, n1) ==
    /\ n1 > 0
    /\ applied[1].line = 5
    /\ SubSeq(prev, 1, 4) = SubSeq(original, 1, 4)
    /\ SubSeq(prev, 5, 4 + n1)
         \in {TerminatedLines(e.content.s) : e \in {i \in InsertEdits : i.content.isStr}}
    /\ SubSeq(prev, 5 + n1, Len(prev)) = SubSeq(original, 5, Len(original))
    /\ applied[2].line = Len(original) + n1 + 1
    /\ lines = prev \o splitlines(last.edit.content.s)

\* C10: two inserts, after_imports and then module_end, on a file that starts
\* with a docstring and three imports place the first content right after the
\* last import line and the second at the end of the buffer as lengthened by
\* the first: its splice index is the original line count plus the number of
\* lines inserted first.
TwoInsertsPlaced ==
    TwoInserts => PlacedIn(splitlines(src), Len(prev) - Len(splitlines(src)))

\* both inserts applied, the buffer growing each time
TwoInsertsApplied ==
    /\ TwoInserts
    /\ Len(prev) > Len(splitlines(src))
    /\ Len(lines) > Len(prev)


CoordinatesIn(found) ==
    IF found = <<>> THEN <<0, 0>> ELSE <<found[1].line, found[1].endLine>>

\* the lines of name in the entries extracted from the text
FreshCoordinates(which, tree, text, name) ==
    CoordinatesIn(by_name_get(EntriesOf(which, tree, text), name))

\* C11: in the by-name apply commands every change is resolved against the
\* buffer as the changes before it left it: the lines on which a change is
\* checked and spliced are those that the named construct has in an index built
\* from the current buffer.
ChangeResolvedAgainstCurrent ==
    (tool \in {"param", "attr"} /\ k > 0 /\ last.reached)
    => <<last.start, last.end>>
         = FreshCoordinates(tool, parse(join(prev)), join(prev), last.edit.name)


\* the last iteration stopped at the comparison with the before text
BeforeMismatch == last.err # Ok /\ last.err[1] = "before mismatch for"

\* C12: the by-name apply commands accept a before text exactly when the
\* comparison of the general applier accepts it: for every current segment and
\* before text that a change reaches, the change passes the before check if and
\* only if _segment_matches holds of the pair.
ByNameCheckIsSegmentMatches ==
    (tool \in {"param", "attr"} /\ k > 0 /\ last.reached)
    => (~BeforeMismatch <=> segment_matches(last.segment, last.edit.before.s))

\* C13: the comparison of the general applier accepts a current segment and a
\* before text if and only if they are equal after every CRLF is replaced by LF
\* and at most one trailing newline is added or removed on one side; a
\* difference of two or more trailing newlines is a mismatch.
SegmentMatchesIsAllowedMatch ==
    (tool = "edit" /\ k > 0 /\ last.reached /\ last.edit.kind = "replace")
    => (~BeforeMismatch
        <=> AllowedMatch(normalize_text(last.segment), normalize_text(last.edit.before.s)))


\* C14: with dryRun true the edit command never writes the file: at every point
\* of the run, whether the list succeeds or fails, the file is the file that
\* was read at entry.
DryRunNeverWrites == (tool = "edit" /\ dryRun) => disk = src

\* a dry run that ended with a content other than the file's
DryRunChangedContent ==
    /\ tool = "edit" /\ dryRun /\ pc = "done"
    /\ out.success /\ out.content # src /\ out.diff # <<>>
    /\ disk = src


\* the source lines first..last (1-based, inclusive) of the text, which are the
\* lines that the parser's lineno and end_lineno denote
SourceLines(text, first, last_line) == join(Slice(splitlines(text), first - 1, last_line))

EntriesSpanText(es, text) ==
    \A i \in 1..Len(es) : es[i].before = SourceLines(text, es[i].line, es[i].endLine)

\* C16: the text reported for every entry of the index and for every resolved
\* replace target equals the concatenation of the buffer lines startLine to
\* endLine, and those buffer lines are the source lines that the parser
\* attributes to the construct.
SpanTextConsistent ==
    /\ (tool \in {"param", "attr"} /\ pc # "idle") => EntriesSpanText(entries, src)
    /\ (tool = "edit" /\ k > 0 /\ last.reached /\ last.edit.kind = "replace")
       => /\ last.segment = join(Slice(prev, last.start - 1, last.end))
          /\ last.segment = SourceLines(join(prev), last.start, last.end)

\* C19: throughout a patch request, before each edit is resolved, the buffer is
\* line for line the text from which the index is built: every buffer element
\* but possibly the last ends with a line terminator and holds one line, so
\* that line n of the index is buffer element n - 1.
BufferIsLinesOfText ==
    (tool = "edit" /\ pc = "running") => lines = splitlines(join(lines))


LeastIn(S) == CHOOSE i \in S : \A j \in S : i <= j

MethodIndices(c, name) == {j \in 1..Len(c.methods) : c.methods[j].name = name}

StrategyIndices(classes) == {i \in 1..Len(classes) : InSeq("IStrategy", classes[i].bases)}

\* the position of the primary class: the first class with base IStrategy,
\* else the first class
PrimaryIndex(classes) ==
    IF StrategyIndices(classes) # {} THEN LeastIn(StrategyIndices(classes)) ELSE 1

MethodFound(c, name) ==
    [type |-> "method", className |-> c.name,
     line |-> c.methods[LeastIn(MethodIndices(c, name))].line,
     endLine |-> c.methods[LeastIn(MethodIndices(c, name))].endLine]

FunctionFound(f) == [type |-> "function", className |-> "", line |-> f.line, endLine |-> f.endLine]

ClassesWith(classes, name) == {i \in 1..Len(classes) : MethodIndices(classes[i], name) # {}}

FunctionsNamed(functions, name) == {i \in 1..Len(functions) : functions[i].name = name}

\* the function that the stated precedence selects, if any
ByPrecedence(classes, functions, name) ==
    IF classes # <<>> /\ MethodIndices(classes[PrimaryIndex(classes)], name) # {}
    THEN <<MethodFound(classes[PrimaryIndex(classes)], name)>>
    ELSE IF ClassesWith(classes, name) # {}
    THEN <<MethodFound(classes[LeastIn(ClassesWith(classes, name))], name)>>
    ELSE IF FunctionsNamed(functions, name) # {}
    THEN <<FunctionFound(functions[LeastIn(FunctionsNamed(functions, name))])>>
    ELSE <<>>

ExpectedFunction(index, name) == ByPrecedence(index.classes, index.functions, name)

FoundLabel(found, name) ==
    IF found.type = "method" THEN <<"method", found.className, name>> ELSE <<"function", name>>

\* the outcome of the replace that names the function agrees with the expected
ReplaceAgrees(expected, name) ==
    IF expected = <<>> THEN last.err = <<"target-not-found:", "function", name>>
    ELSE /\ last.reached
         /\ last.start = expected[1].line /\ last.end = expected[1].endLine
         /\ last.err # Ok => last.err = <<"before mismatch for">> \o FoundLabel(expected[1], name)

\* the outcome of the insert after the function agrees with the expected
InsertAgrees(expected, name) ==
    IF expected = <<>> THEN last.err = <<"anchor-not-found: function", name>>
    ELSE /\ last.err = Ok
         /\ applied[1].line = expected[1].endLine + 1
         /\ lines = Splice(prev, expected[1].endLine, expected[1].endLine,
                           splitlines(last.edit.content.s))

\* the first list element of an edit request names a function
LooksUp(kind) ==
    /\ tool = "edit" /\ k = 1 /\ last.edit.isDict /\ last.edit.kind = kind
    /\ IF kind = "replace" THEN last.edit.target.kind = "function"
       ELSE last.edit.anchor.kind = "after_function"

\* C20: the lookup of a function by name, for function targets and for
\* after_function anchors, returns a method of the primary class if it has one
\* of that name, else the first method of that name of the classes in source
\* order, else the first top-level function of that name, and fails only if
\* there is none.
LookupPrecedence ==
    /\ LooksUp("replace")
       => ReplaceAgrees(ExpectedFunction(build_index(parse(src), src), last.edit.target.name),
                        last.edit.target.name)
    /\ LooksUp("insert")
       => InsertAgrees(ExpectedFunction(build_index(parse(src), src), last.edit.anchor.name),
                       last.edit.anchor.name)

\* a replace of function f in a module with method H.f, then method S.f of the
\* strategy class, then a top-level f: the method of S was replaced
MethodShadowsFunction ==
    /\ LooksUp("replace") /\ last.edit.target.name = "f" /\ last.err = Ok
    /\ src = ClassBlock(ClsH, DefF) \o ClassBlock(ClsS, DefF) \o FunctionBlock(DefF)
    /\ last.start = 5 /\ last.end = 6


\* the two invocations are a dry run and a run that writes, of one request on
\* one file content
Twins == inv[1].dryRun /\ ~inv[2].dryRun /\ inv[1].src = inv[2].src

SameReport(a, b) ==
    /\ a.success = b.success
    /\ a.diff = b.diff /\ a.content = b.content /\ a.applied = b.applied

\* C15: for the same file content and the same edit list the edit command
\* returns the same diff, content and applied values, and succeeds or fails
\* alike, with dryRun true as with dryRun false; the flag decides nothing but
\* whether the file is written.
DryRunSameOutcome ==
    Twins
    => /\ inv[1].pc = inv[2].pc /\ inv[1].err = inv[2].err
       /\ inv[1].lines = inv[2].lines /\ inv[1].applied = inv[2].applied
       /\ SameReport(inv[1].out, inv[2].out)
       /\ inv[1].file = inv[1].src
       /\ inv[2].file = IF inv[2].pc = "done" THEN inv[2].out.content ELSE inv[2].src

\* both runs of a request of two edits have ended: they report the same
\* nonempty diff, and only the file of the second was written
TwinsDone ==
    /\ Twins /\ inv[1].pc = "done" /\ inv[2].pc = "done"
    /\ inv[1].out.dryRun /\ ~inv[2].out.dryRun
    /\ Len(inv[1].out.applied) = 2 /\ inv[1].out.diff # <<>>
    /\ inv[1].out.diff = inv[2].out.diff
    /\ inv[1].file = inv[1].src /\ inv[2].file # inv[2].src


RunMismatch(run) == run.err # Ok /\ run.err[1] = "before mismatch for"

TargetTextIn(tree, text, target) ==
    IF tree.ok
    THEN resolve_replace_target(target, build_index(tree, text), splitlines(text)).segment
    ELSE <<>>

\* the text that the target has in the text
TargetText(text, target) == TargetTextIn(parse(text), text, target)

\* invocation i, whose request was written for the text src, checks its before
\* text on the copy it read and on nothing else: the check passes when the copy
\* is that text, whatever the file holds by now, and it fails only on a copy
\* that the other invocation wrote and in which the target's text is another
ChecksOwnCopy(i, other) ==
    /\ (inv[i].edit.isDict /\ inv[i].src = src) => ~RunMismatch(inv[i])
    /\ RunMismatch(inv[i])
       => /\ inv[other].pc = "done" /\ inv[i].src = inv[other].out.content
          /\ TargetText(inv[i].src, inv[i].edit.target) # TargetText(src, inv[i].edit.target)

\* the step in which invocation i ends writes the whole of its buffer
WritesOwnBuffer(i) ==
    (inv[i].pc = "running" /\ inv'[i].pc = "done") => disk' = join(inv[i].lines)

\* C18: of two concurrent apply invocations on one file each checks its before
\* text against the copy it read at entry only and writes its whole buffer, so
\* that an invocation that read before the other wrote still passes its check
\* and replaces the file, losing the other's reported edit; the check rejects an
\* invocation only when the other's write preceded its read and changed the
\* text of its target.
LostUpdateUnguarded ==
    /\ [](\A i \in 1..2 : ChecksOwnCopy(i, 3 - i))
    /\ [][\A i \in 1..2 : WritesOwnBuffer(i)]_vars

\* both invocations read the same text and reported success, the second wrote
\* space='sell' and the first then wrote default=9: the file lacks the second's
\* edit
LostUpdate ==
    /\ inv[1].pc = "done" /\ inv[2].pc = "done"
    /\ inv[1].out.success /\ inv[2].out.success
    /\ inv[1].src = src /\ inv[2].src = src
    /\ Holds(inv[1].out.content, PX9) /\ Holds(inv[2].out.content, PXsell)
    /\ disk = inv[1].out.content
    /\ ~Holds(disk, PXsell)


IsImport(st) == st.node.form = "Import"

\* the statements from position i on that are imports without interruption
LeadingImports(body, i) ==
    {j \in i..Len(body) : \A q \in i..j : IsImport(body[q])}

\* the end line of the run of imports that starts at position i, else 0
LeadingRunEnd(body, i) ==
    IF LeadingImports(body, i) = {} THEN 0
    ELSE body[CHOOSE j \in LeadingImports(body, i) :
                  \A q \in LeadingImports(body, i) : q <= j].endLine

HasDocstring(body) == body # <<>> /\ IsDocstring(body[1].node)

\* the later of the end of a docstring that is the first statement and the end
\* of the run of imports that leads the module, after the docstring if any
LeadingAnchor(body) ==
    Max(IF HasDocstring(body) THEN body[1].endLine ELSE 0,
        LeadingRunEnd(body, IF HasDocstring(body) THEN 2 ELSE 1))

\* C21: the after_imports anchor resolves to the later of the end line of a
\* docstring that is the very first statement and the end line of the leading
\* run of import statements, and to 0 when the module has neither; imports
\* that come only after another statement do not move the anchor.
AfterImportsIsLeadingRun ==
    (Accepted("edit") /\ last.edit.kind = "insert"
     /\ last.edit.anchor.kind = "after_imports")
    => applied[Len(applied)].line = LeadingAnchor(Body(parse(join(prev)))) + 1


\* the end line of populate_indicators in the primary class, else the end line
\* of that class, else the line count n
IndicatorsFallback(classes, n) ==
    IF classes = <<>> THEN n
    ELSE IF MethodIndices(classes[PrimaryIndex(classes)], "populate_indicators") # {}
    THEN MethodFound(classes[PrimaryIndex(classes)], "populate_indicators").endLine
    ELSE classes[PrimaryIndex(classes)].endLine

IndicatorsInsert ==
    /\ tool = "edit" /\ k = 1 /\ last.edit.isDict /\ last.edit.kind = "insert"
    /\ last.edit.anchor.kind = "heuristic_indicators"

InsertedAt(at) ==
    /\ last.err = Ok
    /\ at >= 0 /\ at <= Len(prev)
    /\ applied[1].line = at + 1
    /\ lines = SubSeq(prev, 1, at) \o splitlines(last.edit.content.s)
               \o SubSeq(prev, at + 1, Len(prev))

\* C22: on a buffer that parses the heuristic_indicators anchor never fails: it
\* resolves to the end line of populate_indicators when the primary class has
\* that method, else to the end line of the primary class, else, without any
\* class, to the line count of the buffer, which is always a splice index
\* between 0 and the line count.
IndicatorsNeverFails ==
    IndicatorsInsert
    => InsertedAt(IndicatorsFallback(index_classes(parse(src)), Len(prev)))

\* the three levels: after the method of strategy class S, which is the second
\* class; at the end of a first class without the method; at the end of a
\* module without class
IndicatorsAfterMethod ==
    /\ IndicatorsInsert /\ last.err = Ok
    /\ src = ClassBlock(ClsH, DefPI) \o ClassBlock(ClsS, DefPI) \o FunctionBlock(DefPI)
    /\ applied[1].line = 7


\* the last list element is a replace of a range, with its strings, on a buffer
\* that parsed
RangeEdit ==
    /\ tool = "edit" /\ k > 0 /\ last.edit.isDict /\ last.edit.kind = "replace"
    /\ last.edit.target.isDict /\ last.edit.target.kind = "range"
    /\ last.edit.before.isStr /\ last.edit.after.isStr
    /\ parse(join(prev)).ok

RangeOutcome(first, last_line, n) ==
    IF 1 <= first /\ first <= last_line /\ last_line <= n
    THEN /\ last.reached
         /\ last.start = first /\ last.end = last_line
         /\ last.segment = join(SubSeq(prev, first, last_line))
    ELSE Rejected /\ last.err = <<"invalid-range">>

\* C23: a range target resolves if and only if 1 <= startLine <= endLine <=
\* the number of buffer lines, a missing value counting as 0; when it resolves
\* the segment is the buffer lines startLine to endLine, whatever the syntax
\* tree says of them, and otherwise the edit fails with invalid-range and
\* nothing is written.
RangeResolvesIffValid ==
    RangeEdit
    => RangeOutcome(last.edit.target.startLine, last.edit.target.endLine, Len(prev))

\* a range of a buffer that an earlier edit has lengthened or shortened was
\* replaced
RangeReplacedInChangedBuffer ==
    /\ RangeEdit /\ k = 2 /\ last.err = Ok
    /\ Len(prev) # Len(splitlines(src))
    /\ last.start = 2 /\ last.end = 2
    /\ last.segment = prev[2]


\* the class statements of the module, and the primary class among them: the
\* first that derives from the strategy base, else the first
ClassStatements(tree) == SelectSeq(Body(tree), IsClass)
DerivedStatements(tree) ==
    SelectSeq(ClassStatements(tree), LAMBDA st : InSeq("IStrategy", st.node.bases))
PrimaryClass(tree) == FirstOr(DerivedStatements(tree), ClassStatements(tree))

\* the whitelisted assignments of the primary class of the text
PrimaryAttrs(tree, text) == ExtractFrom(tree, PrimaryClass(tree), splitlines(text))

\* C24: the attribute tool indexes the whitelisted assignments of the primary
\* class: of the first class that derives from the strategy base, and of the
\* first class of the module only when none derives from it.
AttrsOfPrimaryClass ==
    (tool = "attr" /\ pc # "idle" /\ parse(src).ok)
    => entries = PrimaryAttrs(parse(src), src)


\* a literal value as the whitelisted attributes take it: a constant, or a
\* number written with a leading minus sign
WrittenLiteral(v) == v.kind = "Constant" \/ (v.kind = "UnaryOp" /\ literal_value(v) # <<>>)

\* the change of the last iteration names one whitelisted attribute in both
\* statements, gives it a literal value in both, and its before text is the
\* text of the file at the attribute
LiteralAttrChange(b, a) ==
    /\ b.err = Ok /\ a.err = Ok
    /\ SameWhitelistedName(b.node, a.node)
    /\ b.node.targets[1].id = last.edit.name
    /\ WrittenLiteral(b.node.value) /\ WrittenLiteral(a.node.value)
    /\ last.reached /\ last.segment = last.edit.before.s

\* C25: an attribute change on a whitelisted name whose before text matches
\* the file and whose before and after values are both literals, negative
\* numbers written with a minus sign included, is accepted and applied.
LiteralChangeAccepted ==
    (/\ tool = "attr" /\ k > 0 /\ last.edit.isDict
     /\ last.edit.before.isStr /\ last.edit.after.isStr
     /\ LiteralAttrChange(parse_statement(last.edit.before.s),
                          parse_statement(last.edit.after.s)))
    => /\ last.err = Ok
       /\ lines = Splice(prev, last.start - 1, last.end, splitlines(last.edit.after.s))


\* the text of the content of an insert, as the edit gives it
ContentOf(edit) == IF edit.after.isStr THEN edit.after.s ELSE edit.content.s

\* the lines of original with the lines of content placed at index at, the
\* content terminated when it does not go to the end
WithInserted(original, at, content) ==
    SubSeq(original, 1, at)
    \o splitlines(IF at < Len(original) /\ content # <<>> /\ content[Len(content)] # LF
                  THEN Append(content, LF) ELSE content)
    \o SubSeq(original, at + 1, Len(original))

\* C26: an insert is a pure insertion: the lines of the resulting text are the
\* original lines, unchanged and in order, with the lines of the content placed
\* together at the splice index; no original line is merged with inserted
\* text, also at the end of a file whose last line has no terminator.
InsertIsPureInsertion ==
    (Accepted("edit") /\ last.edit.kind = "insert")
    => splitlines(join(lines)) = WithInserted(prev, last.start, ContentOf(last.edit))


\* the last iteration replaced a resolved span: a replace of the general
\* applier, or a change of a by-name tool
Replaced ==
    /\ k > 0 /\ last.err = Ok /\ last.reached
    /\ last.edit.after.isStr
    /\ tool = "edit" => last.edit.kind = "replace"

\* C27: a successful replace changes only the resolved span: the buffer is then
\* the original lines before startLine, the lines of the after text, and the
\* original lines after endLine, unchanged and in order; an empty after text
\* deletes the span.
ReplaceChangesOnlySpan ==
    Replaced
    => /\ 1 <= last.start /\ last.start <= last.end /\ last.end <= Len(prev)
       /\ lines = SubSeq(prev, 1, last.start - 1)
                  \o splitlines(last.edit.after.s)
                  \o SubSeq(prev, last.end + 1, Len(prev))
       /\ last.edit.after.s = <<>> => Len(lines) = Len(prev) - (last.end - last.start + 1)

\* a span in the middle of the buffer was deleted by an empty after text
SpanDeleted ==
    /\ Replaced /\ tool = "edit"
    /\ last.edit.after.s = <<>>
    /\ last.start > 1 /\ last.end < Len(prev)
    /\ Len(lines) < Len(prev)


\* the number of index entries on the line of statement st
EntriesAt(st) == Cardinality({i \in 1..Len(entries) : entries[i].line = st.line})

\* the assignments of the text with more than one target, and those of them
\* that assign a Parameter constructor call
MultiTarget(tree) ==
    {i \in 1..Len(tree.stmts) :
        tree.stmts[i].node.form = "Assign" /\ Len(tree.stmts[i].node.targets) > 1}
MultiTargetParams(tree) ==
    {i \in MultiTarget(tree) : is_param_call(tree.stmts[i].node.value)}

PlainNames(node) == {j \in 1..Len(node.targets) : node.targets[j].isName}

Indexed(which) == tool = which /\ pc # "idle" /\ parse(src).ok

\* C28: an assignment with more than one target is never indexed in attribute
\* mode; in parameter mode a multi-target assignment of a Parameter call yields
\* exactly one index entry.
MultiTargetOneEntry ==
    /\ Indexed("attr") => \A i \in MultiTarget(parse(src)) : EntriesAt(parse(src).stmts[i]) = 0
    /\ Indexed("param")
       => \A i \in MultiTargetParams(parse(src)) : EntriesAt(parse(src).stmts[i]) = 1

\* the entry of a multi-target parameter assignment: one, under the name of
\* its only plain-name target, when exactly one target is a plain name, and
\* none otherwise
OneNameOneEntry(st) ==
    IF Cardinality(PlainNames(st.node)) = 1
    THEN /\ EntriesAt(st) = 1
         /\ \A i \in 1..Len(entries) :
              entries[i].line = st.line
              => \E j \in PlainNames(st.node) : entries[i].name = st.node.targets[j].id
    ELSE EntriesAt(st) = 0

\* C28, amended: an assignment with more than one target is never indexed in
\* attribute mode; in parameter mode a multi-target assignment of a Parameter
\* call is indexed, once and under that name, if and only if exactly one of
\* its targets is a plain name: the other targets are filtered out, and an
\* assignment to two plain names is not indexed.
MultiTargetIndexedIffOneName ==
    /\ Indexed("attr") => \A i \in MultiTarget(parse(src)) : EntriesAt(parse(src).stmts[i]) = 0
    /\ Indexed("param")
       => \A i \in MultiTargetParams(parse(src)) : OneNameOneEntry(parse(src).stmts[i])

\* the parameter tool indexed a file with x = self.y = P(...), which has an
\* entry, and x = y = P(...), which has none
MultiTargetsIndexed ==
    /\ Indexed("param")
    /\ \E i, j \in MultiTargetParams(parse(src)) :
        /\ Cardinality(PlainNames(parse(src).stmts[i].node)) = 1
        /\ EntriesAt(parse(src).stmts[i]) = 1
        /\ Cardinality(PlainNames(parse(src).stmts[j].node)) = 2
        /\ EntriesAt(parse(src).stmts[j]) = 0


\* the assignment that the general applier's param target selects for a name
\* in the text read at entry
ParamTargetOf(name) == find_param(build_index(parse(src), src), name)

SameLines(hit) ==
    hit # <<>> /\ last.start = hit[1].line /\ last.end = hit[1].endLine

\* C29: when several parameter assignments share a name, the parameter tool
\* resolves the name to the same single assignment as the param target of the
\* general applier, the first in (line, name) order, so the same change edits
\* the same lines through either tool.
SameAssignmentEitherTool ==
    (tool = "param" /\ k = 1 /\ last.reached) => SameLines(ParamTargetOf(last.edit.name))


\* C30: whenever the general applier reports success on a request that is not
\* a dry run and has at least one edit, the content written to the file
\* parses: a buffer that fails to parse at any point of the request, the one
\* left by the last edit included, makes the request fail with no write.
WrittenContentParses ==
    (tool = "edit" /\ pc = "done" /\ ~dryRun /\ k > 0 /\ out.success)
    => disk = join(lines) /\ parse(disk).ok

====
